---- MODULE Spec2Model ----
(***************************************************************************)
(* The optimistic synchronization engine of the BulletP outline editor     *)
(* (frontend/src/store.ts) as a state machine: the zustand store, the      *)
(* requests and responses in flight, and the remote store they act on.     *)
(*                                                                         *)
(* One step of the model is one JavaScript turn: a public operation up to  *)
(* its first await (requests are sent inside that turn), or the            *)
(* continuation that runs when one awaited response is delivered.  The     *)
(* remote store handles one request per step, in any order.                *)
(*                                                                         *)
(* Left out of UiNode: hasChildren and isCollapsed (rendering hints that   *)
(* no operation of the engine reads back), email and caretToEndId.         *)
(***************************************************************************)
EXTENDS Integers, Sequences, FiniteSets, Bags, TLC

VARIABLES
  \* ---- the store (store.ts, type Store) ----
  userId, homeId, rootId, sessionNonce,
  nodes, focusedId, sidebarVersion,
  pendingText, pendingTextRev,
  idRedirect, realToTemp,
  pendingCreate, pendingOps, tombstoneReal,
  inflightNodeFetch, \* _inflightNodeFetch: the api ids with a getNode under way
  \* ---- environment ----
  now,        \* Date.now(), in milliseconds
  minted,     \* number of ids newClientId() has returned
  srv,        \* the remote store: real id -> [parent, text, kids]
  srvMinted,  \* number of ids the remote store has assigned
  net,        \* bag of requests and responses in flight
  authStored, \* localStorage[AUTH_KEY]: empty, or the one stored [userId, homeId]
  \* ---- bookkeeping of the run (not program state) ----
  used,       \* how many operations of each kind the user has invoked
  hist,       \* the updateContent calls so far, oldest first
  canceledEver, \* provisional ids canceled while they had no serverId
  createdFor, \* provisional id -> the remote id its createNode produced
  moves, \* log of indent/outdent calls that moved a node: [id, op, from, to, queued]
  last        \* the step just taken

storeVars == <<userId, homeId, rootId, sessionNonce, nodes, focusedId, sidebarVersion,
               pendingText, pendingTextRev, idRedirect, realToTemp,
               pendingCreate, pendingOps, tombstoneReal, inflightNodeFetch>>
envVars == <<now, minted, srv, srvMinted, net, authStored>>
ghostVars == <<canceledEver, createdFor, moves>>
logVars == <<used, hist, ghostVars, last>>
vars == <<storeVars, envVars, logVars>>

(***************************************************************************)
(* Values                                                                  *)
(***************************************************************************)
NULL == "null"                      \* null / undefined
UserName == "u1"
HomeNode == "h"
TempName == <<"tmp_1", "tmp_2", "tmp_3">>
FreshName == <<"n1", "n2", "n3">>
TempIds == {TempName[i] : i \in 1..Len(TempName)}
EditTexts == {"a", "b"}

EmptyMap == <<>>
Has(f, k) == k \in DOMAIN f
Get(f, k, d) == IF k \in DOMAIN f THEN f[k] ELSE d
Put(f, k, v) == [x \in (DOMAIN f) \cup {k} |-> IF x = k THEN v ELSE f[x]]
Del(f, k) == [x \in (DOMAIN f) \ {k} |-> f[x]]
Range(s) == {s[i] : i \in 1..Len(s)}
One(m) == SetToBag({m})
InFlight == BagToSet(net)

(***************************************************************************)
(* Bounds of the model                                                     *)
(***************************************************************************)
MaxEdits == 3
MaxSessions == 2
MaxSessionEdits == 2
MaxFails == 1
MaxDrafts == 1
MaxDraftEdits == 2
MaxCreates == 1
MaxDeletes == 1
MaxReloads == 1
MaxTicks == 2
MaxFetches == 2
MaxIndents == 2
MaxNests == 1
MaxHydrates == 1
MaxToggles == 1
MaxReturns == 1
MaxReturnEdits == 1
MaxOutdents == 1
MaxStrayEdits == 2

(***************************************************************************)
(* Helpers of store.ts                                                     *)
(***************************************************************************)
isTempId(id) == id \in TempIds

RedirectHops == 8

RECURSIVE FollowRedirect(_, _, _)
FollowRedirect(redirect, cur, i) ==
  IF i = 0 \/ ~Has(redirect, cur) THEN cur
  ELSE FollowRedirect(redirect, redirect[cur], i - 1)

resolveIdForApi(ns, redirect, uiId) ==
  LET cur == IF Has(ns, uiId) /\ ns[uiId].serverId # NULL THEN ns[uiId].serverId ELSE uiId
  IN FollowRedirect(redirect, cur, RedirectHops)

upsertFromApiToUiId(ns, pending, uiId, n) ==
  [ parentId   |-> n.parent_id,
    content    |-> IF Has(pending, uiId) THEN pending[uiId] ELSE n.text,
    orderIndex |-> n.order_index,
    children   |-> IF Has(ns, uiId) THEN ns[uiId].children ELSE <<>>,
    serverId   |-> IF Has(ns, uiId) THEN ns[uiId].serverId ELSE NULL ]

mergeTextOnlyExisting_Rebuilt(existing, updated) ==
  [existing EXCEPT !.content = updated.text, !.serverId = NULL]
\* mergeTextOnly with an existing node: only the content changes
mergeTextOnlyExisting(existing, updated) == [existing EXCEPT !.content = updated.text]

\* mergeTextOnly without one: a new node is made from the response
mergeTextOnlyNew(updated) ==
  [ parentId |-> updated.parent_id, content |-> updated.text,
    orderIndex |-> updated.order_index, children |-> <<>>, serverId |-> NULL ]

mergeTextOnly(ns, id, updated) ==
  IF Has(ns, id) THEN mergeTextOnlyExisting(ns[id], updated) ELSE mergeTextOnlyNew(updated)

IndexOf(arr, id) ==
  IF id \in Range(arr) THEN CHOOSE i \in 1..Len(arr) : arr[i] = id /\ \A j \in 1..(i-1) : arr[j] # id
  ELSE 0

IndexOfLast(arr, id) ==
  CHOOSE i \in 1..Len(arr) : arr[i] = id /\ \A j \in (i+1)..Len(arr) : arr[j] # id

removeFromArray(arr, id) ==
  LET idx == IndexOf(arr, id)
  IN IF idx = 0 THEN arr ELSE SubSeq(arr, 1, idx - 1) \o SubSeq(arr, idx + 1, Len(arr))

insertAfter(arr, afterId, newId) ==
  LET idx == IndexOf(arr, afterId)
  IN IF idx = 0 THEN Append(arr, newId)
     ELSE SubSeq(arr, 1, idx) \o <<newId>> \o SubSeq(arr, idx + 1, Len(arr))

recomputeOrderIndices(ns, parentId) ==
  IF ~Has(ns, parentId) THEN ns
  ELSE LET ch == ns[parentId].children
       IN [x \in DOMAIN ns |->
             IF x \in Range(ch) THEN [ns[x] EXCEPT !.orderIndex = IndexOfLast(ch, x) - 1]
             ELSE ns[x]]

TombstoneTTL == 300000

\* a tombstone check that never suppresses anything
isTombstoned_Never(tomb, clock, realId) == FALSE

isTombstoned(tomb, clock, realId) ==
  /\ Has(tomb, realId)
  /\ tomb[realId] # 0
  /\ clock - tomb[realId] < TombstoneTTL

\* a merge that appends every server child, listed or not
AppendMissing_All(kept, ids) == kept \o ids

RECURSIVE AppendMissing(_, _)
AppendMissing(kept, ids) ==
  IF ids = <<>> THEN kept
  ELSE AppendMissing(IF Head(ids) \in Range(kept) THEN kept ELSE Append(kept, Head(ids)),
                     Tail(ids))

stillPendingTemp_Never(pc, cid) == FALSE
stillPendingTemp(pc, cid) == isTempId(cid) /\ Has(pc, cid) /\ ~pc[cid].canceled

mergeChildrenPreserveLocal(ns, pc, uiParentId, serverChildUiIds) ==
  LET pchildren == IF Has(ns, uiParentId) THEN ns[uiParentId].children ELSE <<>>
      Exists(cid) == Has(ns, cid)
      local == SelectSeq(pchildren, Exists)
      Keep(cid) == stillPendingTemp(pc, cid) \/ cid \in Range(serverChildUiIds)
      kept == SelectSeq(local, Keep)
  IN AppendMissing(kept, serverChildUiIds)

(***************************************************************************)
(* The remote store (backend, behind api.ts).  A request is handled in one *)
(* step; the reply travels back as a second message.                       *)
(***************************************************************************)
SrvHas(id) == id \in DOMAIN srv

SrvRow(s, id) ==
  [ id |-> id, parent_id |-> s[id].parent, text |-> s[id].text,
    order_index |-> IF s[id].parent = NULL THEN 0
                    ELSE IndexOf(s[s[id].parent].kids, id) - 1 ]

SrvRows(s, parent) == [i \in 1..Len(s[parent].kids) |-> SrvRow(s, s[parent].kids[i])]

NoRow == [id |-> NULL, parent_id |-> NULL, text |-> "", order_index |-> 0]

RECURSIVE SrvSubtree(_, _)
SrvSubtree(s, id) ==
  {id} \cup UNION {SrvSubtree(s, s[id].kids[i]) : i \in 1..Len(s[id].kids)}

SrvPatch(s, id, text) == [s EXCEPT ![id].text = text]

SrvDelete(s, id) ==
  LET gone == SrvSubtree(s, id)
      par == s[id].parent
  IN [x \in (DOMAIN s) \ gone |->
        IF x = par THEN [s[x] EXCEPT !.kids = removeFromArray(s[x].kids, id)] ELSE s[x]]

(***************************************************************************)
(* Sending                                                                 *)
(***************************************************************************)
\* loadChildren(parentId) up to its await: the getChildren request, if any
LoadChildrenReq(ns, redirect, r2t, nonce, parentId) ==
  LET apiParentId == resolveIdForApi(ns, redirect, parentId)
  IN IF parentId = NULL \/ parentId = "" \/ isTempId(apiParentId) THEN EmptyBag
     ELSE One([kind |-> "getChildren", ph |-> "req", nonce |-> nonce,
               uiParent |-> Get(r2t, apiParentId, parentId), apiParent |-> apiParentId,
               rows |-> <<>>])

Step(act, m) == [act |-> act, msg |-> m]
NoMsg == [kind |-> "none"]

(***************************************************************************)
(* Initial state: the store as constructed, a remote store holding one     *)
(* user's outline.                                                         *)
(***************************************************************************)
SrvNode(parent, text, kids) == [parent |-> parent, text |-> text, kids |-> kids]

InitialOutlines ==
  { [x \in {"h", "r1"} |->
       IF x = "h" THEN SrvNode(NULL, "Home", <<"r1">>) ELSE SrvNode("h", t, <<>>)]
    : t \in {""} }

InitFrom(outlines) ==
  /\ userId = NULL /\ homeId = NULL /\ rootId = "" /\ sessionNonce = 0
  /\ nodes = EmptyMap /\ focusedId = NULL /\ sidebarVersion = 0
  /\ pendingText = EmptyMap /\ pendingTextRev = EmptyMap
  /\ idRedirect = EmptyMap /\ realToTemp = EmptyMap
  /\ pendingCreate = EmptyMap /\ pendingOps = EmptyMap /\ tombstoneReal = EmptyMap
  /\ inflightNodeFetch = {}
  /\ now = 1 /\ minted = 0 /\ srvMinted = 0
  /\ srv \in outlines
  /\ net = EmptyBag /\ authStored = {}
  /\ used = [k \in {"edit", "session", "fail", "init", "load", "create", "delete", "tick",
                  "fetch", "indent", "outdent", "toggle", "hydrate", "return"} |-> 0]
  /\ hist = <<>> /\ canceledEver = {} /\ createdFor = EmptyMap /\ moves = <<>>
  /\ last = Step("Init", NoMsg)

Init == InitFrom(InitialOutlines)

\* an outline three levels deep
NestedOutlines ==
  { [x \in {"h", "r1", "r2"} |->
       CASE x = "h" -> SrvNode(NULL, "Home", <<"r1">>)
         [] x = "r1" -> SrvNode("h", "", <<"r2">>)
         [] x = "r2" -> SrvNode("r1", "", <<>>)] }

InitNested == InitFrom(NestedOutlines)

(***************************************************************************)
(* Session                                                                 *)
(***************************************************************************)
\* sessionNonce: s.sessionNonce + 1
NextNonce_Same(nonce) == nonce
NextNonce(nonce) == nonce + 1

ResetStore ==
  /\ nodes' = EmptyMap /\ focusedId' = NULL /\ sidebarVersion' = 0
  /\ pendingText' = EmptyMap /\ pendingTextRev' = EmptyMap
  /\ idRedirect' = EmptyMap /\ realToTemp' = EmptyMap
  /\ pendingCreate' = EmptyMap /\ pendingOps' = EmptyMap /\ tombstoneReal' = EmptyMap
  /\ inflightNodeFetch' = {}

setAuth(u, h) ==
  /\ userId' = u /\ homeId' = h /\ rootId' = h
  /\ sessionNonce' = NextNonce(sessionNonce)
  /\ ResetStore
  /\ used' = [used EXCEPT !["session"] = @ + 1]
  /\ hist' = <<>>
  /\ last' = Step("setAuth", NoMsg)
  /\ authStored' = {[userId |-> u, homeId |-> h]}
  /\ UNCHANGED <<now, minted, srv, srvMinted, net, ghostVars>>

clearAuth ==
  /\ userId' = NULL /\ homeId' = NULL /\ rootId' = ""
  /\ sessionNonce' = NextNonce(sessionNonce)
  /\ ResetStore
  /\ used' = [used EXCEPT !["session"] = @ + 1]
  /\ hist' = <<>>
  /\ last' = Step("clearAuth", NoMsg)
  /\ authStored' = {}
  /\ UNCHANGED <<now, minted, srv, srvMinted, net, ghostVars>>

\* hydrateAuth with a stored session: the ids are taken over and the counter
\* is increased; nothing else is assigned
hydrateAuth ==
  /\ \E obj \in authStored :
       /\ userId' = obj.userId /\ homeId' = obj.homeId
       /\ rootId' = obj.homeId
  /\ sessionNonce' = NextNonce(sessionNonce)
  /\ used' = [used EXCEPT !["hydrate"] = @ + 1]
  /\ last' = Step("hydrateAuth", NoMsg)
  /\ UNCHANGED <<nodes, focusedId, sidebarVersion, pendingText, pendingTextRev, idRedirect,
                 realToTemp, pendingCreate, pendingOps, tombstoneReal, inflightNodeFetch,
                 envVars, hist, ghostVars>>

(***************************************************************************)
(* init                                                                    *)
(***************************************************************************)
init ==
  /\ userId # NULL
  /\ net' = net (+) One([kind |-> "getHome", ph |-> "req", nonce |-> sessionNonce, text |-> ""])
  /\ used' = [used EXCEPT !["init"] = @ + 1]
  /\ last' = Step("init", NoMsg)
  /\ UNCHANGED <<storeVars, now, authStored, minted, srv, srvMinted, hist, ghostVars>>

SrvGetHome(m) ==
  /\ m.kind = "getHome" /\ m.ph = "req"
  /\ net' = (net (-) One(m)) (+) One([m EXCEPT !.ph = "ok", !.text = srv[HomeNode].text])
  /\ last' = Step("SrvGetHome", m)
  /\ UNCHANGED <<storeVars, now, authStored, minted, srv, srvMinted, used, hist, ghostVars>>

\* init after `await api.getHome()`
initGotHome(m) ==
  /\ m.kind = "getHome" /\ m.ph = "ok"
  /\ last' = Step("initGotHome", m)
  /\ IF sessionNonce # m.nonce
     THEN /\ net' = net (-) One(m)
          /\ UNCHANGED <<storeVars, now, authStored, minted, srv, srvMinted, used, hist, ghostVars>>
     ELSE LET ns == Put(nodes, HomeNode,
                        [parentId |-> NULL, content |-> m.text, orderIndex |-> 0,
                         children |-> <<>>, serverId |-> NULL])
          IN /\ nodes' = ns /\ homeId' = HomeNode /\ rootId' = HomeNode
             /\ net' = (net (-) One(m))
                         (+) LoadChildrenReq(ns, idRedirect, realToTemp, sessionNonce, HomeNode)
             /\ UNCHANGED <<userId, sessionNonce, focusedId, sidebarVersion, pendingText,
                            pendingTextRev, idRedirect, realToTemp, pendingCreate, pendingOps,
                            tombstoneReal, now, authStored, inflightNodeFetch, minted, srv, srvMinted, used, hist, ghostVars>>

\* init when getHome throws: logged, nothing else
initFailed(m) ==
  /\ m.kind = "getHome" /\ m.ph = "err"
  /\ net' = net (-) One(m)
  /\ last' = Step("initFailed", m)
  /\ UNCHANGED <<storeVars, now, authStored, minted, srv, srvMinted, used, hist, ghostVars>>

(***************************************************************************)
(* A request that fails for a reason other than not-found (network error,  *)
(* 5xx): the remote store is not changed and the caller's await throws.    *)
(***************************************************************************)
RequestFails(m) ==
  /\ m.ph = "req"
  /\ used["fail"] < MaxFails
  /\ net' = (net (-) One(m)) (+) One([m EXCEPT !.ph = "err"])
  /\ used' = [used EXCEPT !["fail"] = @ + 1]
  /\ last' = Step("RequestFails", m)
  /\ UNCHANGED <<storeVars, now, authStored, minted, srv, srvMinted, hist, ghostVars>>

(***************************************************************************)
(* loadChildren                                                            *)
(***************************************************************************)
loadChildren(parentId) ==
  /\ net' = net (+) LoadChildrenReq(nodes, idRedirect, realToTemp, sessionNonce, parentId)
  /\ used' = [used EXCEPT !["load"] = @ + 1]
  /\ last' = Step("loadChildren", NoMsg)
  /\ UNCHANGED <<storeVars, now, authStored, minted, srv, srvMinted, hist, ghostVars>>

SrvGetChildren(m) ==
  /\ m.kind = "getChildren" /\ m.ph = "req"
  /\ net' = (net (-) One(m))
              (+) One(IF SrvHas(m.apiParent)
                      THEN [m EXCEPT !.ph = "ok", !.rows = SrvRows(srv, m.apiParent)]
                      ELSE [m EXCEPT !.ph = "e404"])
  /\ last' = Step("SrvGetChildren", m)
  /\ UNCHANGED <<storeVars, now, authStored, minted, srv, srvMinted, used, hist, ghostVars>>

\* the set(...) of loadChildren after a successful getChildren
MergeRows(ns, pending, r2t, pc, tomb, clock, uiParentId, rows) ==
  LET Live(r) == ~isTombstoned(tomb, clock, r.id)
      live == SelectSeq(rows, Live)
      UiOf(r) == Get(r2t, r.id, r.id)
      serverChildUiIds == [i \in 1..Len(live) |-> UiOf(live[i])]
      RowAt(x) == live[IndexOfLast(serverChildUiIds, x)]
      Upsert(x) ==
        LET r == RowAt(x)
            u == upsertFromApiToUiId(ns, pending, x, r)
        IN IF x # r.id THEN [u EXCEPT !.serverId = r.id] ELSE u
      next == [x \in (DOMAIN ns) \cup Range(serverChildUiIds) |->
                 IF x \in Range(serverChildUiIds) THEN Upsert(x) ELSE ns[x]]
      mergedChildren == mergeChildrenPreserveLocal(next, pc, uiParentId, serverChildUiIds)
      parent ==
        IF Has(next, uiParentId)
        THEN [next[uiParentId] EXCEPT !.children = mergedChildren]
        ELSE [parentId |-> NULL, content |-> "", orderIndex |-> 0,
              children |-> mergedChildren, serverId |-> NULL]
  IN recomputeOrderIndices(Put(next, uiParentId, parent), uiParentId)

loadChildrenGotRows(m) ==
  /\ m.kind = "getChildren" /\ m.ph = "ok"
  /\ net' = net (-) One(m)
  /\ last' = Step("loadChildrenGotRows", m)
  /\ IF sessionNonce # m.nonce
     THEN UNCHANGED <<storeVars>>
     ELSE /\ nodes' = MergeRows(nodes, pendingText, realToTemp, pendingCreate,
                                tombstoneReal, now, m.uiParent, m.rows)
          /\ sidebarVersion' = sidebarVersion + 1
          /\ UNCHANGED <<userId, homeId, rootId, sessionNonce, focusedId, pendingText,
                         pendingTextRev, idRedirect, realToTemp, pendingCreate, pendingOps,
                         tombstoneReal>>
  /\ UNCHANGED <<now, authStored, inflightNodeFetch, minted, srv, srvMinted, used, hist, ghostVars>>

\* the catch of loadChildren, HTTP 404
loadChildrenNotFound(m) ==
  /\ m.kind = "getChildren" /\ m.ph = "e404"
  /\ net' = net (-) One(m)
  /\ last' = Step("loadChildrenNotFound", m)
  /\ rootId' = IF rootId = m.uiParent /\ homeId # NULL THEN homeId ELSE rootId
  /\ nodes' = Del(nodes, m.uiParent)
  /\ sidebarVersion' = sidebarVersion + 1
  /\ UNCHANGED <<userId, homeId, sessionNonce, focusedId, pendingText, pendingTextRev,
                 idRedirect, realToTemp, pendingCreate, pendingOps, tombstoneReal>>
  /\ UNCHANGED <<now, authStored, inflightNodeFetch, minted, srv, srvMinted, used, hist, ghostVars>>

\* the catch of loadChildren, any other error
loadChildrenFailed(m) ==
  /\ m.kind = "getChildren" /\ m.ph = "err"
  /\ net' = net (-) One(m)
  /\ last' = Step("loadChildrenFailed", m)
  /\ sidebarVersion' = sidebarVersion + 1
  /\ UNCHANGED <<userId, homeId, rootId, sessionNonce, nodes, focusedId, pendingText,
                 pendingTextRev, idRedirect, realToTemp, pendingCreate, pendingOps,
                 tombstoneReal>>
  /\ UNCHANGED <<now, authStored, inflightNodeFetch, minted, srv, srvMinted, used, hist, ghostVars>>

(***************************************************************************)
(* toggleCollapse.  isCollapsed is not part of the node records here: the  *)
(* flag only decides whether the children are fetched, so `expands` stands *)
(* for its new value being false.                                          *)
(***************************************************************************)
toggleCollapse(id, expands) ==
  /\ net' = net (+) (IF Has(nodes, id) /\ expands /\ nodes[id].children = <<>>
                     THEN LoadChildrenReq(nodes, idRedirect, realToTemp, sessionNonce, id)
                     ELSE EmptyBag)
  /\ sidebarVersion' = sidebarVersion + 1
  /\ used' = [used EXCEPT !["toggle"] = @ + 1]
  /\ last' = Step("toggleCollapse", [kind |-> "none", id |-> id])
  /\ UNCHANGED <<userId, homeId, rootId, sessionNonce, nodes, focusedId, pendingText,
                 pendingTextRev, idRedirect, realToTemp, pendingCreate, pendingOps,
                 tombstoneReal, inflightNodeFetch, now, authStored, minted, srv, srvMinted,
                 hist, ghostVars>>

(***************************************************************************)
(* ensureNodeLoaded / hydrateNode                                          *)
(***************************************************************************)
hydrateNode(ns, pending, r2t, n) ==
  LET uiId == Get(r2t, n.id, n.id)
  IN Put(ns, uiId, upsertFromApiToUiId(ns, pending, uiId, n))

\* ensureNodeLoaded(id) up to `await api.getNode(apiId)`; the calls that return
\* early (no id, provisional id, node already loaded, fetch already under way)
\* change nothing and are no step
ensureNodeLoaded(id) ==
  LET apiId == resolveIdForApi(nodes, idRedirect, id)
      uiId == Get(realToTemp, apiId, id)
  IN /\ id # NULL /\ id # ""
     /\ ~isTempId(apiId)
     /\ ~Has(nodes, uiId)
     /\ apiId \notin inflightNodeFetch
     /\ inflightNodeFetch' = inflightNodeFetch \cup {apiId}
     /\ net' = net (+) One([kind |-> "getNode", ph |-> "req", nonce |-> sessionNonce,
                            apiId |-> apiId, uiId |-> uiId, row |-> NoRow])
     /\ used' = [used EXCEPT !["fetch"] = @ + 1]
     /\ last' = Step("ensureNodeLoaded", NoMsg)
     /\ UNCHANGED <<userId, homeId, rootId, sessionNonce, nodes, focusedId, sidebarVersion,
                    pendingText, pendingTextRev, idRedirect, realToTemp, pendingCreate,
                    pendingOps, tombstoneReal, now, authStored, minted, srv, srvMinted, hist, ghostVars>>

SrvGetNode(m) ==
  /\ m.kind = "getNode" /\ m.ph = "req"
  /\ net' = (net (-) One(m))
              (+) One(IF SrvHas(m.apiId)
                      THEN [m EXCEPT !.ph = "ok", !.row = SrvRow(srv, m.apiId)]
                      ELSE [m EXCEPT !.ph = "e404"])
  /\ last' = Step("SrvGetNode", m)
  /\ UNCHANGED <<storeVars, now, authStored, minted, srv, srvMinted, used, hist, ghostVars>>

\* ensureNodeLoaded after `await api.getNode(apiId)`, then its finally block
ensureNodeLoadedGotNode(m) ==
  /\ m.kind = "getNode" /\ m.ph = "ok"
  /\ net' = net (-) One(m)
  /\ last' = Step("ensureNodeLoadedGotNode", m)
  /\ nodes' = IF sessionNonce # m.nonce THEN nodes
              ELSE hydrateNode(nodes, pendingText, realToTemp, m.row)
  /\ inflightNodeFetch' = inflightNodeFetch \ {m.apiId}
  /\ UNCHANGED <<userId, homeId, rootId, sessionNonce, focusedId, sidebarVersion,
                 pendingText, pendingTextRev, idRedirect, realToTemp, pendingCreate,
                 pendingOps, tombstoneReal, now, authStored, minted, srv, srvMinted, used, hist,
                 ghostVars>>

\* the catch of ensureNodeLoaded, HTTP 404, then its finally block
ensureNodeLoadedNotFound(m) ==
  /\ m.kind = "getNode" /\ m.ph = "e404"
  /\ net' = net (-) One(m)
  /\ last' = Step("ensureNodeLoadedNotFound", m)
  /\ nodes' = Del(nodes, m.uiId)
  /\ inflightNodeFetch' = inflightNodeFetch \ {m.apiId}
  /\ UNCHANGED <<userId, homeId, rootId, sessionNonce, focusedId, sidebarVersion,
                 pendingText, pendingTextRev, idRedirect, realToTemp, pendingCreate,
                 pendingOps, tombstoneReal, now, authStored, minted, srv, srvMinted, used, hist,
                 ghostVars>>

\* the catch of ensureNodeLoaded, any other error, then its finally block
ensureNodeLoadedFailed(m) ==
  /\ m.kind = "getNode" /\ m.ph = "err"
  /\ net' = net (-) One(m)
  /\ last' = Step("ensureNodeLoadedFailed", m)
  /\ inflightNodeFetch' = inflightNodeFetch \ {m.apiId}
  /\ UNCHANGED <<userId, homeId, rootId, sessionNonce, nodes, focusedId, sidebarVersion,
                 pendingText, pendingTextRev, idRedirect, realToTemp, pendingCreate,
                 pendingOps, tombstoneReal, now, authStored, minted, srv, srvMinted, used, hist,
                 ghostVars>>

(***************************************************************************)
(* updateContent                                                           *)
(***************************************************************************)
PatchesInFlight(id) == {m \in InFlight : m.kind = "patch" /\ m.id = id}

\* the revision given to an edit of id
NextRev(revs, id) == Get(revs, id, 0) + 1

updateContent(id, html) ==
  LET known == Has(nodes, id)
      myRev == IF known THEN NextRev(pendingTextRev, id) ELSE 0
      ns == IF known THEN [nodes EXCEPT ![id].content = html] ELSE nodes
      apiId == resolveIdForApi(ns, idRedirect, id)
      sends == ~(isTempId(id) /\ (~known \/ ns[id].serverId = NULL)) /\ ~isTempId(apiId)
  IN /\ nodes' = ns
     /\ pendingText' = IF known THEN Put(pendingText, id, html) ELSE pendingText
     /\ pendingTextRev' = IF known THEN Put(pendingTextRev, id, myRev) ELSE pendingTextRev
     /\ sidebarVersion' = sidebarVersion + 1
     /\ net' = IF sends
               THEN net (+) One([kind |-> "patch", ph |-> "req", nonce |-> sessionNonce,
                                 id |-> id, apiId |-> apiId, text |-> html, rev |-> myRev,
                                 updated |-> NoRow])
               ELSE net
     /\ used' = [used EXCEPT !["edit"] = @ + 1]
     /\ hist' = Append(hist, [id |-> id, text |-> html, rev |-> myRev, known |-> known,
                              overlaps |-> PatchesInFlight(id) # {}])
     /\ last' = Step("updateContent", NoMsg)
     /\ UNCHANGED <<userId, homeId, rootId, sessionNonce, focusedId, idRedirect, realToTemp,
                    pendingCreate, pendingOps, tombstoneReal, now, authStored, inflightNodeFetch, minted, srv, srvMinted,
                    ghostVars>>

SrvPatchNode(m) ==
  /\ m.kind = "patch" /\ m.ph = "req"
  /\ IF SrvHas(m.apiId)
     THEN LET s == SrvPatch(srv, m.apiId, m.text)
          IN /\ srv' = s
             /\ net' = (net (-) One(m))
                         (+) One([m EXCEPT !.ph = "ok", !.updated = SrvRow(s, m.apiId)])
     ELSE /\ srv' = srv
          /\ net' = (net (-) One(m)) (+) One([m EXCEPT !.ph = "e404"])
  /\ last' = Step("SrvPatchNode", m)
  /\ UNCHANGED <<storeVars, now, authStored, minted, srvMinted, used, hist, ghostVars>>

\* a confirmation handler that forgets the revision check
RevIsCurrent_Unchecked(revs, id, rev) == TRUE

\* whether the confirmation of revision rev of id is still the current one
RevIsCurrent(revs, id, rev) == Get(revs, id, 0) = rev

\* a continuation that forgets the session check
SameSession_Unchecked(nonce) == TRUE

\* whether a continuation that captured nonce may still act
SameSession(nonce) == sessionNonce = nonce

\* updateContent after `await api.patchNode(...)`
updateContentConfirmed(m) ==
  /\ m.kind = "patch" /\ m.ph = "ok"
  /\ net' = net (-) One(m)
  /\ last' = Step("updateContentConfirmed", m)
  /\ IF SameSession(m.nonce) /\ RevIsCurrent(pendingTextRev, m.id, m.rev)
     THEN /\ pendingText' = Del(pendingText, m.id)
          /\ pendingTextRev' = Del(pendingTextRev, m.id)
          /\ nodes' = Put(nodes, m.id, mergeTextOnly(nodes, m.id, m.updated))
     ELSE UNCHANGED <<nodes, pendingText, pendingTextRev>>
  /\ UNCHANGED <<userId, homeId, rootId, sessionNonce, focusedId, sidebarVersion,
                 idRedirect, realToTemp, pendingCreate, pendingOps, tombstoneReal>>
  /\ UNCHANGED <<now, authStored, inflightNodeFetch, minted, srv, srvMinted, used, hist, ghostVars>>

\* the catch of updateContent: 404 is swallowed, anything else is logged
updateContentFailed(m) ==
  /\ m.kind = "patch" /\ m.ph \in {"e404", "err"}
  /\ net' = net (-) One(m)
  /\ last' = Step("updateContentFailed", m)
  /\ UNCHANGED <<storeVars, now, authStored, minted, srv, srvMinted, used, hist, ghostVars>>

(***************************************************************************)
(* appendChild / createAfter                                               *)
(***************************************************************************)
NewNode(parentId, orderIndex) ==
  [ parentId |-> parentId, content |-> "", orderIndex |-> orderIndex,
    children |-> <<>>, serverId |-> NULL ]

NoOp == [indent |-> <<>>, outdent |-> <<>>]

CreateReq_AnyParent(ns, via, tempId, parentId, afterUi) ==
  LET apiParent == resolveIdForApi(ns, idRedirect, parentId)
      apiAfter == IF afterUi = NULL THEN NULL ELSE resolveIdForApi(ns, idRedirect, afterUi)
  IN One([kind |-> "create", ph |-> "req", nonce |-> sessionNonce, via |-> via,
          tempId |-> tempId, parentId |-> parentId, apiParent |-> apiParent,
          after |-> IF apiAfter = NULL \/ isTempId(apiAfter) THEN NULL ELSE apiAfter,
          created |-> NULL])

\* the async block of appendChild/createAfter up to `await api.createNode`
CreateReq(ns, via, tempId, parentId, afterUi) ==
  LET apiParent == resolveIdForApi(ns, idRedirect, parentId)
      apiAfter == IF afterUi = NULL THEN NULL ELSE resolveIdForApi(ns, idRedirect, afterUi)
  IN IF isTempId(apiParent) THEN EmptyBag
     ELSE One([kind |-> "create", ph |-> "req", nonce |-> sessionNonce, via |-> via,
               tempId |-> tempId, parentId |-> parentId, apiParent |-> apiParent,
               after |-> IF apiAfter = NULL \/ isTempId(apiAfter) THEN NULL ELSE apiAfter,
               created |-> NULL])

appendChild(parentId) ==
  /\ Has(nodes, parentId)
  /\ minted < Len(TempName)
  /\ LET tempId == TempName[minted + 1]
         parent == nodes[parentId]
         withNew == Put(nodes, tempId, NewNode(parentId, Len(parent.children)))
         ns == recomputeOrderIndices(
                 [withNew EXCEPT ![parentId].children = Append(parent.children, tempId)],
                 parentId)
     IN /\ nodes' = ns
        /\ pendingCreate' = Put(pendingCreate, tempId,
                                [parentId |-> parentId, canceled |-> FALSE, createdRealId |-> NULL])
        /\ focusedId' = tempId
        /\ sidebarVersion' = sidebarVersion + 1
        /\ net' = net (+) CreateReq(ns, "appendChild", tempId, parentId, NULL)
  /\ minted' = minted + 1
  /\ used' = [used EXCEPT !["create"] = @ + 1]
  /\ last' = Step("appendChild", NoMsg)
  /\ UNCHANGED <<userId, homeId, rootId, sessionNonce, pendingText, pendingTextRev,
                 idRedirect, realToTemp, pendingOps, tombstoneReal, now, authStored, inflightNodeFetch, srv, srvMinted,
                 hist, ghostVars>>

createAfter(id) ==
  /\ Has(nodes, id)
  /\ minted < Len(TempName)
  /\ LET parentId == IF nodes[id].parentId # NULL THEN nodes[id].parentId ELSE homeId
     IN /\ parentId # NULL
        /\ Has(nodes, parentId)
        /\ LET tempId == TempName[minted + 1]
               parent == nodes[parentId]
               withNew == Put(nodes, tempId, NewNode(parentId, 0))
               ns == recomputeOrderIndices(
                       [withNew EXCEPT ![parentId].children = insertAfter(parent.children, id, tempId)],
                       parentId)
           IN /\ nodes' = ns
              /\ pendingCreate' = Put(pendingCreate, tempId,
                                      [parentId |-> parentId, canceled |-> FALSE,
                                       createdRealId |-> NULL])
              /\ focusedId' = tempId
              /\ sidebarVersion' = sidebarVersion + 1
              /\ net' = net (+) CreateReq(ns, "createAfter", tempId, parentId, id)
  /\ minted' = minted + 1
  /\ used' = [used EXCEPT !["create"] = @ + 1]
  /\ last' = Step("createAfter", NoMsg)
  /\ UNCHANGED <<userId, homeId, rootId, sessionNonce, pendingText, pendingTextRev,
                 idRedirect, realToTemp, pendingOps, tombstoneReal, now, authStored, inflightNodeFetch, srv, srvMinted,
                 hist, ghostVars>>

SrvInsert(s, newId, parent, after) ==
  LET withNew == Put(s, newId, SrvNode(parent, "", <<>>))
  IN [withNew EXCEPT ![parent].kids =
        IF after = NULL THEN Append(s[parent].kids, newId)
        ELSE insertAfter(s[parent].kids, after, newId)]

SrvCreateNode(m) ==
  /\ m.kind = "create" /\ m.ph = "req"
  /\ srvMinted < Len(FreshName)
  /\ last' = Step("SrvCreateNode", m)
  /\ IF ~SrvHas(m.apiParent)
     THEN /\ net' = (net (-) One(m)) (+) One([m EXCEPT !.ph = "e404"])
          /\ UNCHANGED <<srv, srvMinted, createdFor>>
     ELSE IF m.after # NULL /\ m.after \notin Range(srv[m.apiParent].kids)
     THEN /\ net' = (net (-) One(m)) (+) One([m EXCEPT !.ph = "eafter"])
          /\ UNCHANGED <<srv, srvMinted, createdFor>>
     ELSE LET newId == FreshName[srvMinted + 1]
          IN /\ srv' = SrvInsert(srv, newId, m.apiParent, m.after)
             /\ srvMinted' = srvMinted + 1
             /\ createdFor' = Put(createdFor, m.tempId, newId)
             /\ net' = (net (-) One(m)) (+) One([m EXCEPT !.ph = "ok", !.created = newId])
  /\ UNCHANGED <<storeVars, now, authStored, minted, used, hist, canceledEver, moves>>

\* whether the create of tempId must be undone instead of bound
CreateIsCanceled(pc, ns, tempId) ==
  (Has(pc, tempId) /\ pc[tempId].canceled) \/ ~Has(ns, tempId)

\* st2.pendingText[tempId] ?? st2.nodes[tempId]?.content ?? ""
LatestHtml_Blank(pending, ns, tempId) == ""
LatestHtml(pending, ns, tempId) ==
  IF Has(pending, tempId) THEN pending[tempId]
  ELSE IF Has(ns, tempId) THEN ns[tempId].content ELSE ""

\* appendChild/createAfter after `await api.createNode(...)`
createLanded(m) ==
  /\ m.kind = "create" /\ m.ph = "ok"
  /\ last' = Step("createLanded", m)
  /\ IF ~SameSession(m.nonce)
     THEN /\ net' = net (-) One(m)
          /\ UNCHANGED storeVars
     ELSE IF CreateIsCanceled(pendingCreate, nodes, m.tempId)
     THEN /\ tombstoneReal' = Put(tombstoneReal, m.created, now)
          /\ net' = (net (-) One(m))
                      (+) One([kind |-> "cdelete", ph |-> "req", nonce |-> m.nonce,
                               tempId |-> m.tempId, parentId |-> m.parentId,
                               realId |-> m.created])
          /\ UNCHANGED <<userId, homeId, rootId, sessionNonce, nodes, focusedId,
                         sidebarVersion, pendingText, pendingTextRev, idRedirect,
                         realToTemp, pendingCreate, pendingOps>>
     ELSE LET there == Has(nodes, m.tempId)
              ns == IF there THEN [nodes EXCEPT ![m.tempId].serverId = m.created] ELSE nodes
              latestHtml == LatestHtml(pendingText, ns, m.tempId)
          IN /\ nodes' = ns
             /\ idRedirect' = IF there THEN Put(idRedirect, m.tempId, m.created) ELSE idRedirect
             /\ realToTemp' = IF there THEN Put(realToTemp, m.created, m.tempId) ELSE realToTemp
             /\ pendingCreate' =
                  IF there
                  THEN Put(pendingCreate, m.tempId,
                           [parentId |-> m.parentId, canceled |-> FALSE,
                            createdRealId |-> m.created])
                  ELSE pendingCreate
             /\ sidebarVersion' = sidebarVersion + 1
             /\ net' = (net (-) One(m))
                         (+) One([kind |-> "flush", ph |-> "req", nonce |-> m.nonce,
                                  tempId |-> m.tempId, parentId |-> m.parentId,
                                  created |-> m.created, text |-> latestHtml,
                                  op |-> Get(pendingOps, m.tempId, NoOp)])
             /\ UNCHANGED <<userId, homeId, rootId, sessionNonce, focusedId, pendingText,
                            pendingTextRev, pendingOps, tombstoneReal>>
  /\ UNCHANGED <<now, authStored, inflightNodeFetch, minted, srv, srvMinted, used, hist, ghostVars>>

\* api.createNode({ parent_id: apiParent, text: "" }) in the inner catch of
\* createAfter; what it throws goes to the outer catch
RetryOf_Anchored(m) == [m EXCEPT !.ph = "req", !.via = "createAfterRetry"]
RetryOf(m) == [m EXCEPT !.ph = "req", !.after = NULL, !.via = "createAfterRetry"]

\* createAfter: the anchor was rejected, the create is sent again without it
createAfterRetry(m) ==
  /\ m.kind = "create" /\ m.ph = "eafter" /\ m.via = "createAfter"
  /\ net' = (net (-) One(m)) (+) One(RetryOf(m))
  /\ last' = Step("createAfterRetry", m)
  /\ UNCHANGED <<storeVars, now, authStored, minted, srv, srvMinted, used, hist, ghostVars>>

\* the outer catch of appendChild/createAfter
createFailed(m) ==
  /\ m.kind = "create" /\ m.ph \notin {"req", "ok"}
  /\ ~(m.ph = "eafter" /\ m.via = "createAfter")
  /\ net' = (net (-) One(m))
              (+) LoadChildrenReq(nodes, idRedirect, realToTemp, sessionNonce, m.parentId)
  /\ last' = Step("createFailed", m)
  /\ UNCHANGED <<storeVars, now, authStored, minted, srv, srvMinted, used, hist, ghostVars>>

SrvDeleteNode(m) ==
  /\ m.kind \in {"cdelete", "delete"} /\ m.ph = "req"
  /\ IF SrvHas(m.realId)
     THEN /\ srv' = SrvDelete(srv, m.realId)
          /\ net' = (net (-) One(m)) (+) One([m EXCEPT !.ph = "ok"])
     ELSE /\ srv' = srv
          /\ net' = (net (-) One(m)) (+) One([m EXCEPT !.ph = "e404"])
  /\ last' = Step("SrvDeleteNode", m)
  /\ UNCHANGED <<storeVars, now, authStored, minted, srvMinted, used, hist, ghostVars>>

\* the canceled branch after `await api.deleteNode(created.id)`, whatever it returned
createUndone(m) ==
  /\ m.kind = "cdelete" /\ m.ph # "req"
  /\ net' = (net (-) One(m))
              (+) LoadChildrenReq(nodes, idRedirect, realToTemp, sessionNonce, m.parentId)
  /\ pendingCreate' = Del(pendingCreate, m.tempId)
  /\ last' = Step("createUndone", m)
  /\ UNCHANGED <<userId, homeId, rootId, sessionNonce, nodes, focusedId, sidebarVersion,
                 pendingText, pendingTextRev, idRedirect, realToTemp, pendingOps,
                 tombstoneReal, now, authStored, inflightNodeFetch, minted, srv, srvMinted, used, hist, ghostVars>>

SrvFlush(m) ==
  /\ m.kind = "flush" /\ m.ph = "req"
  /\ IF SrvHas(m.created)
     THEN /\ srv' = SrvPatch(srv, m.created, m.text)
          /\ net' = (net (-) One(m)) (+) One([m EXCEPT !.ph = "ok"])
     ELSE /\ srv' = srv
          /\ net' = (net (-) One(m)) (+) One([m EXCEPT !.ph = "e404"])
  /\ last' = Step("SrvFlush", m)
  /\ UNCHANGED <<storeVars, now, authStored, minted, srvMinted, used, hist, ghostVars>>

\* serverIndentOnly / serverOutdentOnly up to their await
StructuralReq(kind, ns, uiId, from, to, nonce) ==
  LET apiId == resolveIdForApi(ns, idRedirect, uiId)
  IN IF isTempId(apiId) THEN EmptyBag
     ELSE One([kind |-> kind, ph |-> "req", nonce |-> nonce, apiId |-> apiId,
               from |-> from, to |-> to])

\* the bound branch after `await api.patchNode(created.id, ...)`
bindFlushed(m) ==
  /\ m.kind = "flush" /\ m.ph # "req"
  /\ IF m.ph = "ok"
     THEN /\ pendingText' = Del(pendingText, m.tempId)
          /\ pendingTextRev' = Del(pendingTextRev, m.tempId)
     ELSE UNCHANGED <<pendingText, pendingTextRev>>
  /\ pendingOps' = Del(pendingOps, m.tempId)
  /\ net' = (net (-) One(m))
              (+) (IF m.op.indent # <<>>
                   THEN StructuralReq("indent", nodes, m.tempId, m.op.indent[1], m.op.indent[2], m.nonce)
                   ELSE IF m.op.outdent # <<>>
                   THEN StructuralReq("outdent", nodes, m.tempId, m.op.outdent[1], m.op.outdent[2], m.nonce)
                   ELSE EmptyBag)
              (+) LoadChildrenReq(nodes, idRedirect, realToTemp, sessionNonce, m.parentId)
  /\ pendingCreate' = Del(pendingCreate, m.tempId)
  /\ last' = Step("bindFlushed", m)
  /\ UNCHANGED <<userId, homeId, rootId, sessionNonce, nodes, focusedId, sidebarVersion,
                 idRedirect, realToTemp, tombstoneReal, now, authStored, inflightNodeFetch, minted, srv, srvMinted, used,
                 hist, ghostVars>>

(***************************************************************************)
(* indent / outdent                                                        *)
(***************************************************************************)
\* idx = children.indexOf(id); if (idx <= 0) return; children[idx - 1]:
\* the sibling before id, NULL when the handler returns
previousSibling_Next(children, id) ==
  LET idx == IndexOf(children, id) - 1
  IN IF idx >= 0 /\ idx + 2 <= Len(children) THEN children[idx + 2] ELSE NULL
previousSibling(children, id) ==
  LET idx == IndexOf(children, id) - 1
  IN IF idx > 0 THEN children[idx] ELSE NULL

indent(id) ==
  /\ Has(nodes, id)
  /\ nodes[id].parentId # NULL
  /\ Has(nodes, nodes[id].parentId)
  /\ LET oldParentId == nodes[id].parentId
     IN /\ previousSibling(nodes[oldParentId].children, id) # NULL
        /\ LET newParentId == previousSibling(nodes[oldParentId].children, id)
           IN /\ Has(nodes, newParentId)
              /\ LET moved == [nodes EXCEPT
                                 ![oldParentId].children = removeFromArray(@, id),
                                 ![newParentId].children = Append(@, id),
                                 ![id].parentId = newParentId]
                     ns == recomputeOrderIndices(recomputeOrderIndices(moved, oldParentId),
                                                 newParentId)
                     queued == isTempId(id) /\ ns[id].serverId = NULL
                 IN /\ nodes' = ns
                    /\ focusedId' = id
                    /\ sidebarVersion' = sidebarVersion + 1
                    /\ pendingOps' =
                         IF queued
                         THEN Put(pendingOps, id,
                                  [Get(pendingOps, id, NoOp) EXCEPT
                                     !.indent = <<oldParentId, newParentId>>])
                         ELSE pendingOps
                    /\ moves' = Append(moves, [id |-> id, op |-> "indent", from |-> oldParentId,
                                            to |-> newParentId, queued |-> queued])
                    /\ net' = net (+) (IF queued THEN EmptyBag
                                       ELSE StructuralReq("indent", ns, id, oldParentId,
                                                          newParentId, sessionNonce))
  /\ used' = [used EXCEPT !["indent"] = @ + 1]
  /\ last' = Step("indent", [kind |-> "none", id |-> id])
  /\ UNCHANGED <<userId, homeId, rootId, sessionNonce, pendingText, pendingTextRev,
                 idRedirect, realToTemp, pendingCreate, tombstoneReal, inflightNodeFetch,
                 now, authStored, minted, srv, srvMinted, hist, canceledEver, createdFor>>

outdent(id) ==
  /\ Has(nodes, id)
  /\ nodes[id].parentId # NULL
  /\ Has(nodes, nodes[id].parentId)
  /\ LET parentId == nodes[id].parentId
         grandParentId == nodes[parentId].parentId
     IN /\ grandParentId # NULL
        /\ Has(nodes, grandParentId)
        /\ LET moved == [nodes EXCEPT
                           ![parentId].children = removeFromArray(@, id),
                           ![grandParentId].children = insertAfter(@, parentId, id),
                           ![id].parentId = grandParentId]
               ns == recomputeOrderIndices(recomputeOrderIndices(moved, parentId),
                                           grandParentId)
               queued == isTempId(id) /\ ns[id].serverId = NULL
           IN /\ nodes' = ns
              /\ focusedId' = id
              /\ sidebarVersion' = sidebarVersion + 1
              /\ pendingOps' =
                   IF queued
                   THEN Put(pendingOps, id,
                            [Get(pendingOps, id, NoOp) EXCEPT
                               !.outdent = <<parentId, grandParentId>>])
                   ELSE pendingOps
              /\ moves' = Append(moves, [id |-> id, op |-> "outdent", from |-> parentId,
                                      to |-> grandParentId, queued |-> queued])
              /\ net' = net (+) (IF queued THEN EmptyBag
                                 ELSE StructuralReq("outdent", ns, id, parentId,
                                                    grandParentId, sessionNonce))
  /\ used' = [used EXCEPT !["outdent"] = @ + 1]
  /\ last' = Step("outdent", [kind |-> "none", id |-> id])
  /\ UNCHANGED <<userId, homeId, rootId, sessionNonce, pendingText, pendingTextRev,
                 idRedirect, realToTemp, pendingCreate, tombstoneReal, inflightNodeFetch,
                 now, authStored, minted, srv, srvMinted, hist, canceledEver, createdFor>>

\* indent gets past its early returns: the node, its parent and a previous
\* sibling are in nodes
indentProceeds(id) ==
  /\ Has(nodes, id)
  /\ nodes[id].parentId # NULL
  /\ Has(nodes, nodes[id].parentId)
  /\ previousSibling(nodes[nodes[id].parentId].children, id) # NULL
  /\ Has(nodes, previousSibling(nodes[nodes[id].parentId].children, id))

\* indent on one of its early returns: nothing is set, nothing is sent
indentReturns(id) ==
  /\ ~indentProceeds(id)
  /\ used' = [used EXCEPT !["return"] = @ + 1]
  /\ last' = Step("indent", [kind |-> "none", id |-> id])
  /\ UNCHANGED <<storeVars, envVars, hist, ghostVars>>

\* outdent gets past its early returns: the node, its parent and its
\* grandparent are in nodes
outdentProceeds(id) ==
  /\ Has(nodes, id)
  /\ nodes[id].parentId # NULL
  /\ Has(nodes, nodes[id].parentId)
  /\ nodes[nodes[id].parentId].parentId # NULL
  /\ Has(nodes, nodes[nodes[id].parentId].parentId)

\* outdent on one of its early returns
outdentReturns(id) ==
  /\ ~outdentProceeds(id)
  /\ used' = [used EXCEPT !["return"] = @ + 1]
  /\ last' = Step("outdent", [kind |-> "none", id |-> id])
  /\ UNCHANGED <<storeVars, envVars, hist, ghostVars>>

\* the remote store's indent: the previous sibling becomes the parent, the node
\* its last child
SrvIndent(s, id) ==
  LET p == s[id].parent
      np == s[p].kids[IndexOf(s[p].kids, id) - 1]
  IN [s EXCEPT ![p].kids = removeFromArray(@, id),
               ![np].kids = Append(@, id),
               ![id].parent = np]

SrvCanIndent(s, id) == s[id].parent # NULL /\ IndexOf(s[s[id].parent].kids, id) > 1

\* the remote store's outdent: the grandparent becomes the parent, the node
\* follows its former parent
SrvOutdent(s, id) ==
  LET p == s[id].parent
      g == s[p].parent
  IN [s EXCEPT ![p].kids = removeFromArray(@, id),
               ![g].kids = insertAfter(@, p, id),
               ![id].parent = g]

SrvCanOutdent(s, id) == s[id].parent # NULL /\ s[s[id].parent].parent # NULL

SrvIndentNode(m) ==
  /\ m.kind = "indent" /\ m.ph = "req"
  /\ IF ~SrvHas(m.apiId)
     THEN /\ srv' = srv
          /\ net' = (net (-) One(m)) (+) One([m EXCEPT !.ph = "e404"])
     ELSE IF ~SrvCanIndent(srv, m.apiId)
     THEN /\ srv' = srv
          /\ net' = (net (-) One(m)) (+) One([m EXCEPT !.ph = "err"])
     ELSE /\ srv' = SrvIndent(srv, m.apiId)
          /\ net' = (net (-) One(m)) (+) One([m EXCEPT !.ph = "ok"])
  /\ last' = Step("SrvIndentNode", m)
  /\ UNCHANGED <<storeVars, now, authStored, minted, srvMinted, used, hist, ghostVars>>

SrvOutdentNode(m) ==
  /\ m.kind = "outdent" /\ m.ph = "req"
  /\ IF ~SrvHas(m.apiId)
     THEN /\ srv' = srv
          /\ net' = (net (-) One(m)) (+) One([m EXCEPT !.ph = "e404"])
     ELSE IF ~SrvCanOutdent(srv, m.apiId)
     THEN /\ srv' = srv
          /\ net' = (net (-) One(m)) (+) One([m EXCEPT !.ph = "err"])
     ELSE /\ srv' = SrvOutdent(srv, m.apiId)
          /\ net' = (net (-) One(m)) (+) One([m EXCEPT !.ph = "ok"])
  /\ last' = Step("SrvOutdentNode", m)
  /\ UNCHANGED <<storeVars, now, authStored, minted, srvMinted, used, hist, ghostVars>>

\* the two corrective loadChildren calls of serverIndentOnly / serverOutdentOnly
Refetch_OldOnly(from, to) ==
  LoadChildrenReq(nodes, idRedirect, realToTemp, sessionNonce, from)
Refetch(from, to) ==
  LoadChildrenReq(nodes, idRedirect, realToTemp, sessionNonce, from)
    (+) LoadChildrenReq(nodes, idRedirect, realToTemp, sessionNonce, to)

\* serverIndentOnly after `await api.indentNode(apiId)`
serverIndentOnlyDone(m) ==
  /\ m.kind = "indent" /\ m.ph = "ok"
  /\ net' = (net (-) One(m))
              (+) (IF SameSession(m.nonce) THEN Refetch(m.from, m.to) ELSE EmptyBag)
  /\ last' = Step("serverIndentOnlyDone", m)
  /\ UNCHANGED <<storeVars, now, authStored, minted, srv, srvMinted, used, hist, ghostVars>>

\* the catch of serverIndentOnly
serverIndentOnlyFailed(m) ==
  /\ m.kind = "indent" /\ m.ph \in {"e404", "err"}
  /\ net' = (net (-) One(m)) (+) Refetch(m.from, m.to)
  /\ last' = Step("serverIndentOnlyFailed", m)
  /\ UNCHANGED <<storeVars, now, authStored, minted, srv, srvMinted, used, hist, ghostVars>>

\* serverOutdentOnly after `await api.outdentNode(apiId)`
serverOutdentOnlyDone(m) ==
  /\ m.kind = "outdent" /\ m.ph = "ok"
  /\ net' = (net (-) One(m))
              (+) (IF SameSession(m.nonce) THEN Refetch(m.from, m.to) ELSE EmptyBag)
  /\ last' = Step("serverOutdentOnlyDone", m)
  /\ UNCHANGED <<storeVars, now, authStored, minted, srv, srvMinted, used, hist, ghostVars>>

\* the catch of serverOutdentOnly
serverOutdentOnlyFailed(m) ==
  /\ m.kind = "outdent" /\ m.ph \in {"e404", "err"}
  /\ net' = (net (-) One(m)) (+) Refetch(m.from, m.to)
  /\ last' = Step("serverOutdentOnlyFailed", m)
  /\ UNCHANGED <<storeVars, now, authStored, minted, srv, srvMinted, used, hist, ghostVars>>

(***************************************************************************)
(* deleteIfEmpty                                                           *)
(***************************************************************************)
\* html.replace(ZWSP, "").trim(), on the texts of the model
StripAndTrim(html) == IF html \in {" ", "zwsp"} THEN "" ELSE html

normalizeHtmlEmpty_Any(html) == TRUE
normalizeHtmlEmpty(html) == StripAndTrim(html) \in {"", "<br>"}

\* (idx > 0 ? children[idx - 1] : children[idx + 1]) ?? parentId, idx counted from 0
FallbackFocus(children, id, parentId) ==
  LET idx == IndexOf(children, id) - 1
      pick == IF idx > 0 THEN idx - 1 ELSE idx + 1
  IN IF pick + 1 \in 1..Len(children) THEN children[pick + 1] ELSE parentId

deleteIfEmpty(id) ==
  /\ Has(nodes, id)
  /\ nodes[id].parentId # NULL
  /\ Has(nodes, nodes[id].parentId)
  /\ normalizeHtmlEmpty(nodes[id].content)
  /\ LET parentId == nodes[id].parentId
         parent == nodes[parentId]
         realId == resolveIdForApi(nodes, idRedirect, id)
         isReal == ~isTempId(realId)
         cancels == isTempId(id) /\ Has(pendingCreate, id)
         maybeReal == nodes[id].serverId
         removed == [x \in (DOMAIN nodes) \ {id} |->
                       IF x = parentId
                       THEN [parent EXCEPT !.children = removeFromArray(parent.children, id)]
                       ELSE nodes[x]]
         ns == recomputeOrderIndices(removed, parentId)
     IN /\ pendingCreate' = IF cancels THEN [pendingCreate EXCEPT ![id].canceled = TRUE]
                            ELSE pendingCreate
        /\ canceledEver' = IF cancels /\ maybeReal = NULL THEN canceledEver \cup {id}
                           ELSE canceledEver
        /\ tombstoneReal' = IF isReal THEN Put(tombstoneReal, realId, now) ELSE tombstoneReal
        /\ nodes' = ns
        /\ pendingText' = Del(pendingText, id)
        /\ pendingTextRev' = Del(pendingTextRev, id)
        /\ realToTemp' = IF maybeReal # NULL THEN Del(realToTemp, maybeReal) ELSE realToTemp
        /\ focusedId' = FallbackFocus(parent.children, id, parentId)
        /\ sidebarVersion' = sidebarVersion + 1
        /\ net' = net (+) (IF isReal
                           THEN One([kind |-> "delete", ph |-> "req", nonce |-> sessionNonce,
                                     tempId |-> id, parentId |-> parentId, realId |-> realId])
                           ELSE LoadChildrenReq(ns, idRedirect, realToTemp', sessionNonce, parentId))
  /\ used' = [used EXCEPT !["delete"] = @ + 1]
  /\ last' = Step("deleteIfEmpty", [kind |-> "none", id |-> id])
  /\ UNCHANGED <<userId, homeId, rootId, sessionNonce, idRedirect, pendingOps, now, authStored, inflightNodeFetch, minted,
                 srv, srvMinted, hist, createdFor, moves>>

\* deleteIfEmpty gets past its early returns: the node and its parent are in
\* nodes and the content is empty
deleteIfEmptyProceeds(id) ==
  /\ Has(nodes, id)
  /\ nodes[id].parentId # NULL
  /\ Has(nodes, nodes[id].parentId)
  /\ normalizeHtmlEmpty(nodes[id].content)

\* deleteIfEmpty on one of its early returns
deleteIfEmptyReturns(id) ==
  /\ ~deleteIfEmptyProceeds(id)
  /\ used' = [used EXCEPT !["return"] = @ + 1]
  /\ last' = Step("deleteIfEmpty", [kind |-> "none", id |-> id])
  /\ UNCHANGED <<storeVars, envVars, hist, ghostVars>>

\* deleteIfEmpty after `await api.deleteNode(realId)`
deleteDone(m) ==
  /\ m.kind = "delete" /\ m.ph = "ok"
  /\ net' = (net (-) One(m))
              (+) (IF SameSession(m.nonce)
                   THEN LoadChildrenReq(nodes, idRedirect, realToTemp, sessionNonce, m.parentId)
                   ELSE EmptyBag)
  /\ last' = Step("deleteDone", m)
  /\ UNCHANGED <<storeVars, now, authStored, minted, srv, srvMinted, used, hist, ghostVars>>

\* the catch of deleteIfEmpty
deleteFailed(m) ==
  /\ m.kind = "delete" /\ m.ph \in {"e404", "err"}
  /\ net' = (net (-) One(m))
              (+) LoadChildrenReq(nodes, idRedirect, realToTemp, sessionNonce, m.parentId)
  /\ last' = Step("deleteFailed", m)
  /\ UNCHANGED <<storeVars, now, authStored, minted, srv, srvMinted, used, hist, ghostVars>>

(***************************************************************************)
(* Time                                                                    *)
(***************************************************************************)
TickMs == 150000

Tick ==
  /\ now' = now + TickMs
  /\ used' = [used EXCEPT !["tick"] = @ + 1]
  /\ last' = Step("Tick", NoMsg)
  /\ UNCHANGED <<storeVars, authStored, minted, srv, srvMinted, net, hist, ghostVars>>

(***************************************************************************)
(* Text editing within and across sessions: login, logout, init, edits of  *)
(* the loaded nodes, requests handled and answered in any order.           *)
(***************************************************************************)
Requests == {m \in InFlight : m.ph = "req"}
Responses == {m \in InFlight : m.ph # "req"}

Login(max) == used["session"] < max /\ setAuth(UserName, HomeNode)
Logout(max) == used["session"] < max /\ userId # NULL /\ clearAuth
\* the application calls init once when a user has logged in
Start == used["init"] < sessionNonce /\ init
Edit(max) ==
  /\ used["edit"] < max
  /\ \E id \in (DOMAIN nodes) \ {HomeNode} : \E html \in EditTexts : updateContent(id, html)

Boot ==
  \/ Start
  \/ \E m \in Requests : SrvGetHome(m)
  \/ \E m \in Requests : SrvGetChildren(m)
  \/ \E m \in Responses : initGotHome(m)
  \/ \E m \in Responses : loadChildrenGotRows(m)

BootFailures ==
  \/ \E m \in Requests : RequestFails(m)
  \/ \E m \in Responses : initFailed(m)
  \/ \E m \in Responses : loadChildrenFailed(m)

TextTraffic ==
  \/ \E m \in Requests : SrvPatchNode(m)
  \/ \E m \in Responses : updateContentConfirmed(m)

TextFailures == \E m \in Responses : updateContentFailed(m)

NextText ==
  \/ Login(1) \/ Edit(MaxEdits)
  \/ Boot \/ BootFailures \/ TextTraffic \/ TextFailures

SpecText == Init /\ [][NextText]_vars

(***************************************************************************)
(* The same with logout and a second login while requests are in flight.   *)
(***************************************************************************)
NextSession ==
  \/ Login(MaxSessions) \/ Logout(MaxSessions) \/ Edit(MaxSessionEdits)
  \/ Boot \/ BootFailures \/ TextTraffic \/ TextFailures

SpecSession == Init /\ [][NextSession]_vars

(***************************************************************************)
(* Drafts: a node is created and typed into while its creation, its bind   *)
(* and the follow-up fetch are under way.                                  *)
(***************************************************************************)
Create(max) ==
  \/ used["create"] < max /\ \E p \in DOMAIN nodes : appendChild(p)
  \/ used["create"] < max /\ \E id \in (DOMAIN nodes) \ {HomeNode} : createAfter(id)

CreateTraffic ==
  \/ \E m \in Requests : SrvCreateNode(m)
  \/ \E m \in Requests : SrvFlush(m)
  \/ \E m \in Responses : createLanded(m)
  \/ \E m \in Responses : bindFlushed(m)

\* the user adds a node to an outline that has finished loading
Draft(max) ==
  \/ net = EmptyBag /\ used["create"] < max /\ \E p \in DOMAIN nodes : appendChild(p)
  \/ /\ net = EmptyBag /\ used["create"] < max
     /\ \E id \in (DOMAIN nodes) \ {HomeNode} : createAfter(id)

NextDraft ==
  \/ Login(1) \/ Draft(MaxDrafts) \/ Edit(MaxDraftEdits)
  \/ Boot \/ CreateTraffic \/ TextTraffic

SpecDraft == Init /\ [][NextDraft]_vars

\* the same, with every request answered and every response delivered
DraftTraffic == Boot \/ CreateTraffic \/ TextTraffic
SpecDraftDelivered == SpecDraft /\ WF_vars(DraftTraffic)

(***************************************************************************)
(* Deletes: nodes are created and deleted, fetches of the parent race with *)
(* the deletes, requests may fail, time passes.                            *)
(***************************************************************************)
Delete(max) ==
  /\ used["delete"] < max
  /\ \E id \in DOMAIN nodes : deleteIfEmpty(id)

Reload(max) ==
  /\ used["load"] < max
  /\ \E p \in DOMAIN nodes : loadChildren(p)

Clock(max) == used["tick"] < max /\ Tick

DeleteTraffic ==
  \/ \E m \in Requests : SrvDeleteNode(m)
  \/ \E m \in Responses : createUndone(m)
  \/ \E m \in Responses : deleteDone(m)
  \/ \E m \in Responses : deleteFailed(m)
  \/ \E m \in Responses : createAfterRetry(m)
  \/ \E m \in Responses : createFailed(m)

NextDelete ==
  \/ Login(1) \/ Create(MaxCreates) \/ Delete(MaxDeletes) \/ Reload(MaxReloads)
  \/ Clock(MaxTicks)
  \/ Boot \/ BootFailures \/ CreateTraffic \/ DeleteTraffic

SpecDelete == Init /\ [][NextDelete]_vars

(***************************************************************************)
(* Logins, logouts and restored sessions around drafts and collapse        *)
(* toggles.                                                                *)
(***************************************************************************)
Hydrate(max) == used["hydrate"] < max /\ hydrateAuth

Toggle(max) ==
  /\ used["toggle"] < max
  /\ \E id \in DOMAIN nodes : \E expands \in BOOLEAN : toggleCollapse(id, expands)

NextAuth ==
  \/ Login(MaxSessions) \/ Logout(MaxSessions) \/ Hydrate(MaxHydrates)
  \/ Toggle(MaxToggles) \/ Draft(MaxDrafts)
  \/ Boot \/ CreateTraffic

SpecAuth == Init /\ [][NextAuth]_vars

(***************************************************************************)
(* Single-node fetches racing with deletes.                                *)
(***************************************************************************)
KnownIds == (DOMAIN nodes) \cup (DOMAIN srv) \cup (DOMAIN tombstoneReal)

Fetch(max) ==
  /\ used["fetch"] < max
  /\ \E id \in KnownIds : ensureNodeLoaded(id)

FetchTraffic ==
  \/ \E m \in Requests : SrvGetNode(m)
  \/ \E m \in Responses : ensureNodeLoadedGotNode(m)
  \/ \E m \in Responses : ensureNodeLoadedNotFound(m)
  \/ \E m \in Responses : ensureNodeLoadedFailed(m)

RealDeleteTraffic ==
  \/ \E m \in Requests : SrvDeleteNode(m)
  \/ \E m \in Responses : deleteDone(m)
  \/ \E m \in Responses : deleteFailed(m)

NextFetch ==
  \/ Login(1) \/ Fetch(MaxFetches) \/ Delete(MaxDeletes) \/ Clock(MaxTicks)
  \/ Boot \/ BootFailures \/ FetchTraffic \/ RealDeleteTraffic

SpecFetch == Init /\ [][NextFetch]_vars

(***************************************************************************)
(* A node added under a node that was itself just added, with every        *)
(* request answered and every response delivered.                          *)
(***************************************************************************)
Nest(max) ==
  /\ used["create"] < MaxDrafts + max
  /\ \E p \in TempIds \cap DOMAIN nodes : appendChild(p)

NestTraffic == Boot \/ CreateTraffic

NextNest == Login(1) \/ Draft(MaxDrafts) \/ Nest(MaxNests) \/ NestTraffic

SpecNest == Init /\ [][NextNest]_vars /\ WF_vars(NestTraffic)

(***************************************************************************)
(* Indents of a newly created node in a nested outline.                    *)
(***************************************************************************)
Indent(max, ids) == used["indent"] < max /\ \E id \in ids \cap DOMAIN nodes : indent(id)
Outdent(max, ids) == used["outdent"] < max /\ \E id \in ids \cap DOMAIN nodes : outdent(id)

IndentTraffic ==
  \/ \E m \in Requests : SrvIndentNode(m)
  \/ \E m \in Responses : serverIndentOnlyDone(m)
  \/ \E m \in Responses : serverIndentOnlyFailed(m)

OutdentTraffic ==
  \/ \E m \in Requests : SrvOutdentNode(m)
  \/ \E m \in Responses : serverOutdentOnlyDone(m)
  \/ \E m \in Responses : serverOutdentOnlyFailed(m)

StructureTraffic == IndentTraffic \/ OutdentTraffic

\* the user opens a node of an outline that has finished loading
Expand(max) == net = EmptyBag /\ used["load"] < max /\ \E p \in DOMAIN nodes : loadChildren(p)

\* the user indents the node just added
NextQueue ==
  \/ Login(1) \/ Draft(MaxDrafts) \/ Expand(MaxReloads)
  \/ Indent(MaxIndents, TempIds)
  \/ Boot \/ CreateTraffic \/ IndentTraffic

SpecQueue == InitNested /\ [][NextQueue]_vars

(***************************************************************************)
(* A create that fails, and indent and outdent of the node it was for.     *)
(***************************************************************************)
CreateFails == \E m \in Requests : m.kind = "create" /\ RequestFails(m)

FailedCreateTraffic ==
  \/ CreateFails
  \/ \E m \in Responses : createFailed(m)

NextRetry ==
  \/ Login(1) \/ Draft(MaxDrafts)
  \/ Indent(MaxIndents, TempIds) \/ Outdent(MaxOutdents, TempIds)
  \/ Boot \/ CreateTraffic \/ FailedCreateTraffic \/ StructureTraffic

SpecRetry == Init /\ [][NextRetry]_vars

(***************************************************************************)
(* A newly created node is indented and then deleted while empty.          *)
(***************************************************************************)
DiscardTraffic ==
  \/ \E m \in Requests : SrvDeleteNode(m)
  \/ \E m \in Responses : createUndone(m)
  \/ \E m \in Responses : deleteDone(m)

NextDiscard ==
  \/ Login(1) \/ Draft(MaxDrafts)
  \/ Indent(MaxIndents, TempIds) \/ Delete(MaxDeletes)
  \/ Boot \/ CreateTraffic \/ IndentTraffic \/ DiscardTraffic

SpecDiscard == Init /\ [][NextDiscard]_vars

(***************************************************************************)
(* Keys that do nothing: delete on a node with text, indent of a first     *)
(* child, outdent at the top level, next to the ones that act.             *)
(***************************************************************************)
AllIds == TempIds \cup DOMAIN srv

Returns(max) ==
  \/ used["return"] < max /\ \E id \in AllIds : deleteIfEmptyReturns(id)
  \/ used["return"] < max /\ \E id \in AllIds : indentReturns(id)
  \/ used["return"] < max /\ \E id \in AllIds : outdentReturns(id)

DeleteAnswered ==
  \/ \E m \in Requests : SrvDeleteNode(m)
  \/ \E m \in Responses : deleteDone(m)

IndentAnswered ==
  \/ \E m \in Requests : SrvIndentNode(m)
  \/ \E m \in Responses : serverIndentOnlyDone(m)

\* the user presses a key when the outline has finished loading
Idle == net = EmptyBag

NextReturns ==
  \/ Login(1) \/ Draft(MaxDrafts)
  \/ (Idle /\ Edit(MaxReturnEdits))
  \/ (Idle /\ Delete(MaxDeletes))
  \/ (Idle /\ Indent(MaxIndents, AllIds))
  \/ (Idle /\ Returns(MaxReturns))
  \/ Boot \/ CreateTraffic \/ TextTraffic \/ IndentAnswered \/ DeleteAnswered

SpecReturns == Init /\ [][NextReturns]_vars

(***************************************************************************)
(* A bound node is indented and outdented in a nested outline, one key at  *)
(* a time, every call confirmed.                                           *)
(***************************************************************************)
OutdentAnswered ==
  \/ \E m \in Requests : SrvOutdentNode(m)
  \/ \E m \in Responses : serverOutdentOnlyDone(m)

NextDrift ==
  \/ Login(1)
  \/ (moves = <<>> /\ Draft(MaxDrafts))
  \/ (Idle /\ Indent(MaxIndents, TempIds))
  \/ (Idle /\ Outdent(MaxOutdents, TempIds))
  \/ Boot \/ CreateTraffic \/ IndentAnswered \/ OutdentAnswered

SpecDrift == InitNested /\ [][NextDrift]_vars

(***************************************************************************)
(* Edits of a node that was just deleted: the editor of the node calls     *)
(* updateContent once more after deleteIfEmpty has removed the node.       *)
(***************************************************************************)
StrayEdit(max) ==
  /\ used["edit"] < max
  /\ \E id \in (DOMAIN tombstoneReal) \ DOMAIN nodes :
       \E html \in EditTexts : updateContent(id, html)

NextStray ==
  \/ Login(1) \/ Delete(MaxDeletes) \/ StrayEdit(MaxStrayEdits)
  \/ Boot \/ TextTraffic \/ TextFailures \/ DeleteAnswered

SpecStray == Init /\ [][NextStray]_vars

(***************************************************************************)
(* Properties of text confirmation                                         *)
(***************************************************************************)
EditsOf(id) == LET Mine(e) == e.id = id /\ e.known IN SelectSeq(hist, Mine)
Edited == {hist[i].id : i \in 1..Len(hist)}
LastEdit(id) == EditsOf(id)[Len(EditsOf(id))]
Handled(act) == last.act = act
TextLedger == <<nodes, pendingText, pendingTextRev>>

\* C1: two edits of a bound node, the second dispatched while the PATCH of the
\* first had not returned: once both PATCH responses are processed, whichever
\* came first, the node's content is the second text.
C1_TwoOverlappingEditsKeepSecond ==
  \A id \in Edited :
    LET e == EditsOf(id)
    IN (/\ Len(e) = 2 /\ e[2].overlaps /\ ~isTempId(id)
        /\ PatchesInFlight(id) = {} /\ Has(nodes, id))
       => nodes[id].content = e[2].text

\* both responses processed, the one of the first edit last
C1_Witness ==
  \E id \in Edited :
    LET e == EditsOf(id)
    IN /\ Len(e) = 2 /\ e[2].overlaps /\ e[1].text # e[2].text
       /\ PatchesInFlight(id) = {}
       /\ Handled("updateContentConfirmed") /\ last.msg.id = id /\ last.msg.rev = e[1].rev
       /\ nodes[id].content = e[2].text

\* C2: whatever the number of edits and the order of the PATCH responses, the
\* content of an edited node is the text of its most recent updateContent.
C2_ContentIsLatestEdit ==
  \A id \in Edited :
    (EditsOf(id) # <<>> /\ Has(nodes, id)) => nodes[id].content = LastEdit(id).text

\* C3: within a session the revisions given to the edits of one node increase
\* strictly.
C3_RevisionsIncrease ==
  \A i, j \in 1..Len(hist) :
    (i < j /\ hist[i].id = hist[j].id /\ hist[i].known /\ hist[j].known)
      => hist[i].rev < hist[j].rev

\* C4: a PATCH confirmation whose revision is not the current pendingTextRev of
\* its node leaves nodes, pendingText and pendingTextRev as they were.
C4_StaleRevisionIsDiscarded ==
  [][ (last'.act = "updateContentConfirmed"
        /\ ~(Has(pendingTextRev, last'.msg.id)
              /\ pendingTextRev[last'.msg.id] = last'.msg.rev))
      => UNCHANGED TextLedger ]_vars

\* a confirmation has just been discarded although the node has a pending edit
\* and the response carries another text
C4_Witness ==
  /\ Handled("updateContentConfirmed")
  /\ Has(pendingTextRev, last.msg.id) /\ pendingTextRev[last.msg.id] # last.msg.rev
  /\ last.msg.nonce = sessionNonce
  /\ nodes[last.msg.id].content # last.msg.updated.text

\* C5: a PATCH response (success or error) of an updateContent started in an
\* earlier session leaves nodes, pendingText and pendingTextRev as they were.
C5_StaleSessionPatchChangesNothing ==
  [][ (last'.act \in {"updateContentConfirmed", "updateContentFailed"}
        /\ last'.msg.nonce # sessionNonce)
      => UNCHANGED TextLedger ]_vars

\* the response of an old session was processed while the new session has
\* reloaded the node and holds a pending edit of the very same revision
C5_Witness ==
  /\ Handled("updateContentConfirmed")
  /\ last.msg.nonce # sessionNonce
  /\ Has(nodes, last.msg.id)
  /\ RevIsCurrent(pendingTextRev, last.msg.id, last.msg.rev)
  /\ nodes[last.msg.id].content # last.msg.updated.text

\* C6: a continuation whose session has ended changes nothing in the store and
\* sends nothing.
ClientHandlers ==
  { "initGotHome", "initFailed", "loadChildrenGotRows", "loadChildrenNotFound",
    "loadChildrenFailed", "updateContentConfirmed", "updateContentFailed" }
SendsNothing == \A m \in BagToSet(net') : CopiesIn(m, net') <= CopiesIn(m, net)
C6_StaleSessionContinuationIsInert ==
  [][ (last'.act \in ClientHandlers /\ last'.msg.nonce # sessionNonce)
      => (UNCHANGED storeVars /\ SendsNothing) ]_vars

(***************************************************************************)
(* Properties of provisional nodes                                         *)
(***************************************************************************)
Quiet == net = EmptyBag

\* C7: a node created with appendChild/createAfter and typed into before, during
\* or after its create response: once the bind, its text flush, the follow-up
\* loadChildren and every PATCH response are done, the node shows the last text
\* typed.
C7_DraftShowsLastTypedText ==
  \A id \in Edited \cap TempIds :
    (Quiet /\ Has(nodes, id) /\ nodes[id].serverId # NULL)
      => nodes[id].content = LastEdit(id).text

ChildrenOf(ns, p) == IF Has(ns, p) THEN Range(ns[p].children) ELSE {}
Listed(ns) == UNION {Range(ns[p].children) : p \in DOMAIN ns}
Bindings == {idRedirect[t] : t \in DOMAIN idRedirect} \cup DOMAIN realToTemp
RowIds(m) == {m.rows[i].id : i \in 1..Len(m.rows)}
\* the tombstone of r is younger than five minutes
FiveMinutes == 5 * 60 * 1000
WithinTTL(r) == Has(tombstoneReal, r) /\ now - tombstoneReal[r] < FiveMinutes
\* r does not come to be a node or a child in this step
NotAdded(r) ==
  /\ Has(nodes', r) => Has(nodes, r)
  /\ r \in Listed(nodes') => r \in Listed(nodes)
\* the create response of the canceled t has been processed: its remote id is
\* known and tombstoned
Undoing(t) == t \in canceledEver /\ Has(createdFor, t) /\ Has(tombstoneReal, createdFor[t])

\* C8: a node created and deleted while provisional, before its create
\* response: processing the response issues a deleteNode for the new remote id,
\* after a successful delete the remote node is gone, and no loadChildren
\* response of the parent that still lists the remote id, processed later, puts
\* the node back under either id.
C8_CanceledCreateNeverReturns ==
  [][ /\ (last'.act = "createLanded" /\ last'.msg.tempId \in canceledEver)
         => \E d \in BagToSet(net') : d.kind = "cdelete" /\ d.ph = "req"
                                      /\ d.realId = last'.msg.created
      /\ (last'.act = "createUndone" /\ last'.msg.ph = "ok")
         => last'.msg.realId \notin DOMAIN srv'
      /\ last'.act = "loadChildrenGotRows"
         => \A t \in canceledEver :
              (Undoing(t) /\ createdFor[t] \in RowIds(last'.msg))
                => (NotAdded(createdFor[t]) /\ NotAdded(t)) ]_vars

\* C9: a create canceled before it was bound is never attached: its provisional
\* id gets no serverId, idRedirect or realToTemp entry, and the remote id made
\* for it is no key of nodes and no member of a children list.
C9_CanceledCreateNeverAttached ==
  \A t \in canceledEver :
    /\ Has(nodes, t) => nodes[t].serverId = NULL
    /\ ~Has(idRedirect, t)
    /\ \A r \in DOMAIN realToTemp : realToTemp[r] # t
    /\ Has(createdFor, t) => (~Has(nodes, createdFor[t]) /\ createdFor[t] \notin Listed(nodes))

\* C10: a loadChildren response that lists a remote id whose tombstone is within
\* its TTL adds neither that id nor the provisional id that was bound to it to
\* nodes or to a children list, whether the fetch was sent before or after the
\* delete.
C10_TombstonedIdNotReadded ==
  [][ last'.act = "loadChildrenGotRows"
      => \A r \in RowIds(last'.msg) :
           WithinTTL(r)
             => /\ NotAdded(r)
                /\ \A t \in DOMAIN idRedirect : idRedirect[t] = r => NotAdded(t) ]_vars

\* a fetch listing a bound node that deleteIfEmpty removed was merged within
\* the TTL and the node stayed out
C10_Witness ==
  /\ Handled("loadChildrenGotRows") /\ last.msg.nonce = sessionNonce
  /\ \E r \in RowIds(last.msg) :
       /\ WithinTTL(r) /\ r \notin {createdFor[t] : t \in canceledEver \cap DOMAIN createdFor}
       /\ ~Has(nodes, r) /\ r \notin Listed(nodes)

(***************************************************************************)
(* Properties of single-node fetches                                       *)
(***************************************************************************)
\* C11: a getNode response for a remote id whose tombstone is within its TTL
\* is discarded: it adds neither that id nor the provisional id standing for it
\* to nodes.
C11_TombstonedNodeNotHydrated ==
  [][ (last'.act = "ensureNodeLoadedGotNode" /\ last'.msg.nonce = sessionNonce
         /\ WithinTTL(last'.msg.row.id))
      => /\ Has(nodes', last'.msg.row.id) => Has(nodes, last'.msg.row.id)
         /\ Has(nodes', last'.msg.uiId) => Has(nodes, last'.msg.uiId) ]_vars

(***************************************************************************)
(* Properties of the reconciliation merge                                  *)
(***************************************************************************)
\* the children of p before the merge, and the server list of a getChildren
\* response mapped to local ids, tombstoned rows removed
LocalList(p) == IF Has(nodes, p) THEN nodes[p].children ELSE <<>>
ServerList(m) ==
  LET Live(r) == ~WithinTTL(r.id)
      live == SelectSeq(m.rows, Live)
  IN [i \in 1..Len(live) |-> Get(realToTemp, live[i].id, live[i].id)]
Unbound(c) == isTempId(c) /\ Has(nodes, c) /\ nodes[c].serverId = NULL
MergeOf(L, S) ==
  LET KeepL(c) == Unbound(c) \/ c \in Range(S)
      keptL == SelectSeq(L, KeepL)
      New(c) == c \notin Range(keptL)
  IN keptL \o SelectSeq(S, New)

\* C12: a processed getChildren response leaves the parent with: its local
\* children that are unbound provisional nodes or are in the server list, in
\* local order, then the other members of the server list, in server order.
C12_MergeKeepsLocalOrderAppendsServer ==
  [][ (last'.act = "loadChildrenGotRows" /\ last'.msg.nonce = sessionNonce)
      => nodes'[last'.msg.uiParent].children
           = MergeOf(LocalList(last'.msg.uiParent), ServerList(last'.msg)) ]_vars

\* C12 (amended): the local children kept are those still in nodes that are
\* provisional with a create record that is present and not canceled (every
\* unbound provisional child is one of them), or that are in the server list;
\* the other members of the server list follow in server order.
CreatePending(c) == isTempId(c) /\ Has(pendingCreate, c) /\ ~pendingCreate[c].canceled
MergeOfPending(L, S) ==
  LET KeepL(c) == Has(nodes, c) /\ (CreatePending(c) \/ c \in Range(S))
      keptL == SelectSeq(L, KeepL)
      New(c) == c \notin Range(keptL)
  IN keptL \o SelectSeq(S, New)
C12_MergeKeepsPendingCreates ==
  [][ (last'.act = "loadChildrenGotRows" /\ last'.msg.nonce = sessionNonce)
      => /\ nodes'[last'.msg.uiParent].children
              = MergeOfPending(LocalList(last'.msg.uiParent), ServerList(last'.msg))
         /\ \A c \in Range(LocalList(last'.msg.uiParent)) :
              Unbound(c) => c \in Range(nodes'[last'.msg.uiParent].children) ]_vars
\* an unbound provisional child was kept in front of a child the server added
C12_Witness ==
  /\ last.act = "loadChildrenGotRows" /\ last.msg.nonce = sessionNonce
  /\ Has(nodes, last.msg.uiParent)
  /\ \E i, j \in 1..Len(nodes[last.msg.uiParent].children) :
       /\ i < j
       /\ Unbound(nodes[last.msg.uiParent].children[i])
       /\ ~isTempId(nodes[last.msg.uiParent].children[j])
       /\ nodes[last.msg.uiParent].children[j] \in Range(ServerList(last.msg))

(***************************************************************************)
(* Properties of the structural operation queue                            *)
(***************************************************************************)
MovesOf(t) == LET Mine(e) == e.id = t IN SelectSeq(moves, Mine)
IndentedTwiceUnbound(t) ==
  /\ Len(MovesOf(t)) = 2
  /\ \A i \in 1..2 : MovesOf(t)[i].op = "indent" /\ MovesOf(t)[i].queued
\* t is bound, its create has run to its end and nothing is in flight
Settled(t) ==
  /\ net = EmptyBag
  /\ ~Has(pendingCreate, t) /\ ~Has(pendingOps, t)
  /\ Has(nodes, t) /\ nodes[t].serverId # NULL

\* C14: a provisional node indented twice while unbound is, once it is bound
\* and the queued request and its re-fetches are done, still under the parent
\* the second indent gave it, and that is its parent in the remote store.
C14_QueuedIndentsReachFinalParent ==
  \A t \in TempIds :
    (IndentedTwiceUnbound(t) /\ Settled(t))
      => /\ nodes[t].parentId = MovesOf(t)[2].to
         /\ SrvHas(nodes[t].serverId)
         /\ srv[nodes[t].serverId].parent
              = resolveIdForApi(nodes, idRedirect, nodes[t].parentId)

\* C15: in every reachable state pendingOps has an entry for id only if id is
\* a provisional id whose node has no serverId.
C15_QueueHoldsOnlyUnboundProvisionalIds ==
  \A id \in DOMAIN pendingOps : Unbound(id)

(***************************************************************************)
(* Reconvergence                                                           *)
(***************************************************************************)
ApiId(id) == resolveIdForApi(nodes, idRedirect, id)
\* parents whose children have been fetched or added to
LoadedParents == {p \in DOMAIN nodes : nodes[p].children # <<>> /\ SrvHas(ApiId(p))}
Reconverged ==
  /\ net = EmptyBag
  /\ pendingCreate = EmptyMap /\ pendingOps = EmptyMap
  /\ \A p \in LoadedParents :
       /\ {ApiId(c) : c \in Range(nodes[p].children)} = Range(srv[ApiId(p)].kids)
       /\ \A c \in Range(nodes[p].children) :
            Has(nodes, c) /\ ApiId(nodes[c].parentId) = srv[ApiId(c)].parent
  /\ \A id \in DOMAIN nodes : SrvHas(ApiId(id)) => nodes[id].content = srv[ApiId(id)].text

\* C13: when no call fails and every response is delivered, the store ends, and
\* stays, with nothing in flight, no create record, no queued operation, the
\* children of every loaded parent those of the remote store and every content
\* the remote text.
C13_EventuallyReconverged == <>[]Reconverged

\* C16: with every request answered and every response delivered, every node
\* minted by appendChild/createAfter that is unbound is later bound or removed.
C16_ProvisionalNodeEndsBoundOrDiscarded ==
  \A t \in TempIds : Unbound(t) ~> ~Unbound(t)

(***************************************************************************)
(* Properties of a failed create                                           *)
(***************************************************************************)
CreateMsgs(bag, t) == {m \in BagToSet(bag) : m.kind = "create" /\ m.tempId = t}
\* the createNode of t has failed: t is unbound, its create record is there and
\* nothing of its create is in flight
CreateHasFailed(t) ==
  Unbound(t) /\ Has(pendingCreate, t) /\ CreateMsgs(net, t) = {}
Attached(ns, t) == Has(ns, t) /\ t \in ChildrenOf(ns, ns[t].parentId)

\* C17: the catch of a failed createNode leaves the node in nodes and in its
\* parent's children, and an indent or outdent of a node whose create has
\* failed sends createNode for it again.
C17_FailedCreateIsKeptAndRetried ==
  [][ /\ (last'.act = "createFailed" /\ Has(nodes, last'.msg.tempId))
         => Attached(nodes', last'.msg.tempId)
      /\ (last'.act \in {"indent", "outdent"} /\ CreateHasFailed(last'.msg.id))
         => \E m \in CreateMsgs(net', last'.msg.id) : m.ph = "req" ]_vars

(***************************************************************************)
(* Properties of the text of an unbound node                               *)
(***************************************************************************)
LatestText(t) == IF Has(pendingText, t) THEN pendingText[t] ELSE nodes[t].content
Binds(t) == Unbound(t) /\ Has(nodes', t) /\ nodes'[t].serverId # NULL

\* C18: updateContent on an unbound provisional node sends nothing, and the
\* step that binds a node sends exactly one patchNode, to the new remote id,
\* with the latest text recorded for the node (pendingText, else content).
C18_UnboundTextIsSentOnceAtBind ==
  [][ /\ (last'.act = "updateContent" /\ Unbound(hist'[Len(hist')].id)) => net' = net
      /\ \A t \in TempIds :
           Binds(t) =>
             /\ last'.act = "createLanded" /\ last'.msg.tempId = t
             /\ \E f \in BagToSet(net') :
                  /\ net' = (net (-) One(last'.msg)) (+) One(f)
                  /\ f.kind = "flush" /\ f.ph = "req"
                  /\ f.created = nodes'[t].serverId
                  /\ f.text = LatestText(t) ]_vars
\* a node typed into while unbound has just been bound and its text is on its way
C18_Witness ==
  /\ last.act = "createLanded"
  /\ \E f \in InFlight :
       /\ f.kind = "flush" /\ f.ph = "req" /\ f.tempId = last.msg.tempId
       /\ f.text \in EditTexts
       /\ Has(nodes, f.tempId) /\ nodes[f.tempId].serverId = f.created

(***************************************************************************)
(* Properties of sibling order and of binding                              *)
(***************************************************************************)
\* C19: for every node p and every position i of its children, the child at
\* i, if it is in nodes, has orderIndex i (positions counted from 0).
C19_OrderIndexIsPosition ==
  \A p \in DOMAIN nodes : \A i \in 1..Len(nodes[p].children) :
    Has(nodes, nodes[p].children[i]) => nodes[nodes[p].children[i]].orderIndex = i - 1

PositionIn(ns, t) == IndexOf(ns[ns[t].parentId].children, t)

\* C20: the step that binds a node keeps its key, its parentId, its content and
\* its position in its parent's children and adds no node under the remote id;
\* a serverId that is set keeps its value for as long as the node exists.
C20_BindingKeepsIdentityAndIsFinal ==
  [][ /\ \A t \in TempIds :
           Binds(t) =>
             /\ nodes'[t].parentId = nodes[t].parentId
             /\ nodes'[t].content = nodes[t].content
             /\ Has(nodes, nodes[t].parentId) => PositionIn(nodes', t) = PositionIn(nodes, t)
             /\ DOMAIN nodes' = DOMAIN nodes
      /\ \A id \in DOMAIN nodes :
           (nodes[id].serverId # NULL /\ Has(nodes', id))
             => nodes'[id].serverId = nodes[id].serverId ]_vars
\* a node has just been bound and is where it was
C20_Witness ==
  /\ last.act = "createLanded" /\ last.msg.nonce = sessionNonce
  /\ Has(nodes, last.msg.tempId)
  /\ nodes[last.msg.tempId].serverId = last.msg.created
  /\ last.msg.tempId \in ChildrenOf(nodes, nodes[last.msg.tempId].parentId)
  /\ ~Has(nodes, last.msg.created)

\* C21: in every reachable state no id occurs more than once in the children
\* of a node.
NoDuplicates(seq) == \A i, j \in 1..Len(seq) : seq[i] = seq[j] => i = j
C21_ChildrenHaveNoDuplicates ==
  \A p \in DOMAIN nodes : NoDuplicates(nodes[p].children)

(***************************************************************************)
(* Properties of the session counter                                       *)
(***************************************************************************)
SessionSteps == {"setAuth", "clearAuth", "hydrateAuth"}

\* C22: setAuth and clearAuth each add exactly 1 to sessionNonce, sessionNonce
\* never decreases, and no other operation and no response handler changes it.
C22_SessionCounterSteps ==
  [][ /\ last'.act \in {"setAuth", "clearAuth"} => sessionNonce' = sessionNonce + 1
      /\ sessionNonce' >= sessionNonce
      /\ last'.act \notin SessionSteps => sessionNonce' = sessionNonce ]_vars
\* a logout after a login in which the outline was loaded and a node added
C22_Witness ==
  /\ last.act = "clearAuth" /\ sessionNonce = 2
  /\ used["create"] > 0 /\ used["toggle"] > 0

\* C23: every step that changes sessionNonce ends with nodes, the text ledgers,
\* both resolver maps, pendingCreate, pendingOps and tombstoneReal empty and
\* focusedId null.
C23_SessionBoundaryResetsState ==
  [][ sessionNonce' # sessionNonce
      => /\ nodes' = EmptyMap
         /\ pendingText' = EmptyMap /\ pendingTextRev' = EmptyMap
         /\ idRedirect' = EmptyMap /\ realToTemp' = EmptyMap
         /\ pendingCreate' = EmptyMap /\ pendingOps' = EmptyMap
         /\ tombstoneReal' = EmptyMap
         /\ focusedId' = NULL ]_vars

(***************************************************************************)
(* Properties of deleteIfEmpty                                             *)
(***************************************************************************)
\* C24: when deleteIfEmpty(id) has removed the node, pendingText,
\* pendingTextRev and pendingOps have no entry for id and no entry of
\* realToTemp maps to id.
C24_DeleteClearsEveryEntryOfTheNode ==
  [][ last'.act = "deleteIfEmpty"
      => LET id == last'.msg.id
         IN /\ ~Has(nodes', id)
            /\ ~Has(pendingText', id) /\ ~Has(pendingTextRev', id)
            /\ ~Has(pendingOps', id)
            /\ \A r \in DOMAIN realToTemp' : realToTemp'[r] # id ]_vars

\* texts that are empty once ZWSP is stripped and the rest trimmed, "<br>" included
BlankTexts == {"", " ", "zwsp", "<br>"}

\* C25: deleteIfEmpty on a node whose content is not empty changes neither
\* nodes, focusedId, pendingCreate, tombstoneReal nor any ledger, and sends
\* nothing.
C25_DeleteOfNodeWithTextIsInert ==
  [][ /\ last'.act = "deleteIfEmpty"
      /\ Has(nodes, last'.msg.id)
      /\ nodes[last'.msg.id].content \notin BlankTexts
      => UNCHANGED <<nodes, focusedId, pendingCreate, tombstoneReal, pendingText,
                     pendingTextRev, idRedirect, realToTemp, pendingOps, net>> ]_vars
\* deleteIfEmpty has been called on a node that holds text
C25_Witness ==
  /\ last.act = "deleteIfEmpty"
  /\ Has(nodes, last.msg.id)
  /\ nodes[last.msg.id].content \in EditTexts

(***************************************************************************)
(* Properties of indent and outdent                                        *)
(***************************************************************************)
\* id is in nodes under a parent that is in nodes
Placed(id) == Has(nodes, id) /\ nodes[id].parentId # NULL /\ Has(nodes, nodes[id].parentId)
FirstChild(id) ==
  /\ Placed(id)
  /\ nodes[nodes[id].parentId].children # <<>>
  /\ nodes[nodes[id].parentId].children[1] = id
TopLevel(id) == Placed(id) /\ nodes[nodes[id].parentId].parentId = NULL

\* C28: indent of a first child and outdent of a node whose parent has no
\* parent leave nodes, focusedId, pendingOps and sidebarVersion as they were
\* and send nothing.
C28_IndentOfFirstAndOutdentOfTopAreInert ==
  [][ \/ last'.act = "indent" /\ FirstChild(last'.msg.id)
      \/ last'.act = "outdent" /\ TopLevel(last'.msg.id)
      => UNCHANGED <<nodes, focusedId, pendingOps, sidebarVersion, net>> ]_vars
\* indent has been called on a first child that has a sibling after it
C28_WitnessIndent ==
  /\ last.act = "indent" /\ FirstChild(last.msg.id)
  /\ Len(nodes[nodes[last.msg.id].parentId].children) > 1
  /\ used["indent"] = 0
\* outdent has been called on a child of the home node
C28_Witness ==
  /\ last.act = "outdent" /\ TopLevel(last.msg.id)
  /\ used["return"] > 0

\* seq without id, the rest in the order it has
Others(seq, id) == LET Keep(x) == x # id IN SelectSeq(seq, Keep)

\* C26: indent(id), with s the sibling before id under p: id is no longer in
\* p.children, id is the last element of s.children, nodes[id].parentId = s,
\* the other children of p and of s keep their relative order, focusedId = id.
C26_IndentMovesUnderPreviousSibling ==
  [][ last'.act = "indent" /\ Placed(last'.msg.id)
      => LET id == last'.msg.id
             p == nodes[id].parentId
             i == IndexOf(nodes[p].children, id)
         IN i > 1 /\ Has(nodes, nodes[p].children[i - 1])
            => LET s == nodes[p].children[i - 1]
               IN /\ id \notin Range(nodes'[p].children)
                  /\ nodes'[s].children # <<>>
                  /\ nodes'[s].children[Len(nodes'[s].children)] = id
                  /\ nodes'[id].parentId = s
                  /\ Others(nodes'[p].children, id) = Others(nodes[p].children, id)
                  /\ Others(nodes'[s].children, id) = Others(nodes[s].children, id)
                  /\ focusedId' = id ]_vars

\* C27: outdent(id), with parent p and grandparent g: id is no longer in
\* p.children, id is in g.children directly after p, nodes[id].parentId = g,
\* the other children of p and of g keep their relative order, focusedId = id.
C27_OutdentMovesAfterParent ==
  [][ last'.act = "outdent" /\ Placed(last'.msg.id)
      => LET id == last'.msg.id
             p == nodes[id].parentId
             g == nodes[p].parentId
         IN g # NULL /\ Has(nodes, g)
            => /\ id \notin Range(nodes'[p].children)
               /\ \E k \in 1..(Len(nodes'[g].children) - 1) :
                    nodes'[g].children[k] = p /\ nodes'[g].children[k + 1] = id
               /\ nodes'[id].parentId = g
               /\ Others(nodes'[p].children, id) = Others(nodes[p].children, id)
               /\ Others(nodes'[g].children, id) = Others(nodes[g].children, id)
               /\ focusedId' = id ]_vars

(***************************************************************************)
(* Properties of the re-fetch after a structural operation                 *)
(***************************************************************************)
LastMove == moves[Len(moves)]
\* the bound children of q, as remote ids, in local order
BoundOrder(q) ==
  LET IsBound(c) == Has(nodes, c) /\ ~Unbound(c)
      bound == SelectSeq(nodes[q].children, IsBound)
  IN [i \in 1..Len(bound) |-> ApiId(bound[i])]
\* the same ids in the order of the remote store
RemoteOrder(q) ==
  LET Local(r) == r \in Range(BoundOrder(q))
  IN SelectSeq(srv[ApiId(q)].kids, Local)
\* the last operation was an indent or outdent of a bound node; it has been
\* confirmed and the two re-fetches it started have been merged
MoveRefetched ==
  /\ moves # <<>> /\ ~LastMove.queued
  /\ net = EmptyBag /\ last.act = "loadChildrenGotRows"
  /\ pendingCreate = EmptyMap

\* C29: once an indent or outdent of a bound node is confirmed and the
\* re-fetches of its old and new parent are merged, nothing else having been
\* done in between, the bound children of both parents are in the remote
\* store's order.
C29_RefetchRestoresRemoteOrder ==
  MoveRefetched
    => \A q \in {LastMove.from, LastMove.to} :
         Has(nodes, q) /\ SrvHas(ApiId(q)) => BoundOrder(q) = RemoteOrder(q)

StructuralFailures == {"serverIndentOnlyFailed", "serverOutdentOnlyFailed"}
\* what a call of loadChildren(q) sends in the current state
Fetches(q) == LoadChildrenReq(nodes, idRedirect, realToTemp, sessionNonce, q)

\* C30: when indentNode or outdentNode fails, with not-found or with any other
\* error, the handler leaves the local move in place and calls loadChildren for
\* the old and for the new parent.
C30_FailedMoveIsKeptAndBothParentsRefetched ==
  [][ last'.act \in StructuralFailures
      => /\ UNCHANGED <<nodes, focusedId, pendingOps>>
         /\ net' = ((net (-) One(last'.msg)) (+) Fetches(last'.msg.from))
                     (+) Fetches(last'.msg.to) ]_vars
\* a failed outdentNode has been handled: the node is still under the parent
\* the local outdent gave it, and a fetch of each parent is on its way
C30_Witness ==
  /\ last.act = "serverOutdentOnlyFailed"
  /\ LET id == Get(realToTemp, last.msg.apiId, last.msg.apiId)
     IN Has(nodes, id) /\ nodes[id].parentId = last.msg.to
  /\ \A q \in {last.msg.from, last.msg.to} :
       \E r \in Requests : r.kind = "getChildren" /\ r.apiParent = ApiId(q)
\* the same for indentNode answered with not-found, as happens in SpecDiscard
\* when the remote delete of the node is handled before its indentNode
C30_WitnessNotFound ==
  /\ last.act = "serverIndentOnlyFailed" /\ last.msg.ph = "e404"
  /\ \A q \in {last.msg.from, last.msg.to} :
       \E r \in Requests : r.kind = "getChildren" /\ r.apiParent = ApiId(q)

(***************************************************************************)
(* Properties of the create retry                                          *)
(***************************************************************************)
CreatesIn(bag) == {m \in BagToSet(bag) : m.kind = "create" /\ m.ph = "req"}
\* the response that was handled is that of the anchorless second createNode
Retried(m) == m.kind = "create" /\ m.via = "createAfterRetry"

\* C31: a createNode of createAfter that carried an anchor and was rejected
\* with anchor-not-found is followed by exactly one more createNode, for the
\* same parent and without anchor, to whose result the provisional node is
\* bound; no other create error is followed by a createNode.
C31_AnchorNotFoundRetriesOnceWithoutAnchor ==
  [][ /\ last'.act = "createAfterRetry"
         => /\ last'.msg.after # NULL /\ ~Retried(last'.msg)
            /\ \E r \in CreatesIn(net') :
                 /\ CreatesIn(net') = (CreatesIn(net) \cup {r})
                 /\ CopiesIn(r, net') = CopiesIn(r, net) + 1
                 /\ r.tempId = last'.msg.tempId /\ r.apiParent = last'.msg.apiParent
                 /\ r.after = NULL
      /\ last'.act = "createFailed"
         => \A r \in CreatesIn(net') : CopiesIn(r, net') <= CopiesIn(r, net)
      /\ ( /\ last'.act = "createLanded" /\ Retried(last'.msg)
           /\ SameSession(last'.msg.nonce)
           /\ ~CreateIsCanceled(pendingCreate, nodes, last'.msg.tempId) )
         => /\ nodes'[last'.msg.tempId].serverId = last'.msg.created
            /\ idRedirect'[last'.msg.tempId] = last'.msg.created ]_vars
\* a provisional node has been bound to the result of the second createNode
C31_Witness ==
  /\ last.act = "createLanded" /\ Retried(last.msg)
  /\ Has(nodes, last.msg.tempId)
  /\ nodes[last.msg.tempId].serverId = last.msg.created

(***************************************************************************)
(* Properties of the version signal                                        *)
(***************************************************************************)
TextSteps == {"updateContent", "updateContentConfirmed", "updateContentFailed"}

\* C32: neither updateContent nor the handling of its PATCH response changes
\* sidebarVersion.
C32_TextEditsLeaveVersionSignal ==
  [][ last'.act \in TextSteps => sidebarVersion' = sidebarVersion ]_vars

(***************************************************************************)
(* Properties of repeated fetches                                          *)
(***************************************************************************)
\* the getChildren responses that would be merged if handled now
Mergeable == {m \in Responses : m.kind = "getChildren" /\ m.ph = "ok" /\ SameSession(m.nonce)}
\* nodes after the merge of response m into ns, the rest of the store as it is
MergedInto(ns, m) ==
  MergeRows(ns, pendingText, realToTemp, pendingCreate, tombstoneReal, now, m.uiParent, m.rows)

\* C33: handling two getChildren responses for the same parent that carry the
\* same rows, with nothing done in between, leaves the nodes (children lists
\* and orderIndex values included) that handling one of them leaves.
C33_MergingTwiceIsMergingOnce ==
  \A m \in Mergeable : MergedInto(MergedInto(nodes, m), m) = MergedInto(nodes, m)
\* a response has just been merged into a parent that holds a node the server
\* does not list, and a second response with the same rows is still to come
C33_Witness ==
  /\ last.act = "loadChildrenGotRows" /\ SameSession(last.msg.nonce)
  /\ last.msg \in Mergeable
  /\ Has(nodes, last.msg.uiParent)
  /\ \E c \in Range(nodes[last.msg.uiParent].children) : Unbound(c)
  /\ last.msg.rows # <<>>

(***************************************************************************)
(* Properties of the order of structural requests                          *)
(***************************************************************************)
\* an indent or outdent of t was queued and its request has not been sent yet:
\* it is in pendingOps, or held by the bind of t that awaits its text flush
AwaitsDispatch(t) ==
  \/ Has(pendingOps, t) /\ pendingOps[t] # NoOp
  \/ \E f \in InFlight : f.kind = "flush" /\ f.tempId = t /\ f.op # NoOp
\* an indent or outdent of t was sent when it was called
SentDirectly(t) == \E i \in 1..Len(moves) : moves[i].id = t /\ ~moves[i].queued

\* C34: the indentNode/outdentNode requests of a node are sent in the order of
\* its local indent/outdent calls: none that was called after the node was
\* bound is sent while one that was queued before is still to be sent.
C34_QueuedOperationIsSentFirst ==
  \A t \in TempIds : ~(SentDirectly(t) /\ AwaitsDispatch(t))

(***************************************************************************)
(* Properties of the tree shape                                            *)
(***************************************************************************)
ParentsListing(c) == {p \in DOMAIN nodes : c \in Range(nodes[p].children)}

\* C35: in every reachable state an id is in the children of at most one node,
\* and a child that is in nodes has the node that lists it as its parentId.
C35_SingleParentTree ==
  /\ \A c \in AllIds : Cardinality(ParentsListing(c)) <= 1
  /\ \A p \in DOMAIN nodes : \A c \in Range(nodes[p].children) :
       Has(nodes, c) => nodes[c].parentId = p

\* C36: in every reachable state no children list holds both a provisional id
\* and the remote id that the createNode of that provisional id produced.
C36_NoChildListedUnderBothIds ==
  \A p \in DOMAIN nodes : \A t \in TempIds :
    ~(/\ Has(createdFor, t)
      /\ t \in Range(nodes[p].children)
      /\ createdFor[t] \in Range(nodes[p].children))

(* Properties of the ids that go to the remote side *)
\* the ids a request carries to the remote side
WireIds(m) ==
  CASE m.kind = "getChildren" -> {m.apiParent}
    [] m.kind \in {"getNode", "patch", "indent", "outdent"} -> {m.apiId}
    [] m.kind \in {"delete", "cdelete"} -> {m.realId}
    [] m.kind = "flush" -> {m.created}
    [] m.kind = "create" -> {m.apiParent, m.after} \ {NULL}
    [] OTHER -> {}

Provisional(id) == isTempId(resolveIdForApi(nodes, idRedirect, id))

NewCreates == DOMAIN pendingCreate' \ DOMAIN pendingCreate

FetchSteps == {"loadChildrenGotRows", "ensureNodeLoadedGotNode"}

\* the latest edit of id is what the node shows, and the patchNode of that edit
\* (no other edit had the same revision and text) is still under way
Unconfirmed(id) ==
  LET es == EditsOf(id)
      e == es[Len(es)]
  IN /\ Has(nodes, id) /\ es # <<>>
     /\ nodes[id].content = e.text
     /\ \A i \in 1..(Len(es) - 1) : ~(es[i].rev = e.rev /\ es[i].text = e.text)
     /\ \E m \in PatchesInFlight(id) :
          SameSession(m.nonce) /\ m.rev = e.rev /\ m.text = e.text

LedgersAgree == DOMAIN pendingText = DOMAIN pendingTextRev
PendingTextShown ==
  \A id \in DOMAIN pendingText : Has(nodes, id) => nodes[id].content = pendingText[id]

\* C38: pendingText and pendingTextRev are defined for the same ids, a node
\* with pending text has that text as content, and no loadChildren or getNode
\* response changes the content of a node that has an unconfirmed edit.
C38_UnconfirmedTextWinsOverFetched ==
  [][ /\ LedgersAgree'
      /\ PendingTextShown'
      /\ last'.act \in FetchSteps =>
           \A id \in DOMAIN nodes :
             (Unconfirmed(id) /\ Has(nodes', id)) => nodes'[id].content = nodes[id].content ]_vars

(* Properties of deleting a node that has children *)
\* C39: a deleteIfEmpty step removes a node only if it has no local children,
\* and leaves no node whose parentId is the removed node.
C39_DeleteNeverDiscardsSubtree ==
  [][ (last'.act = "deleteIfEmpty" /\ Has(nodes, last'.msg.id) /\ ~Has(nodes', last'.msg.id))
        => /\ nodes[last'.msg.id].children = <<>>
           /\ \A c \in DOMAIN nodes' : nodes'[c].parentId # last'.msg.id ]_vars

(* Properties of editing an id that nodes does not hold *)
\* the patchNode of an edit of an id that nodes did not hold
StrayPatch(m) == m.kind = "patch" /\ m.rev = 0

\* C40: an updateContent of an id that nodes does not hold changes neither
\* nodes nor the two text ledgers and sends nothing, and no later response to
\* it puts the id into nodes.
C40_EditOfUnknownIdIsInert ==
  [][ /\ (Len(hist') > Len(hist) /\ ~hist'[Len(hist')].known)
           => /\ nodes' = nodes /\ pendingText' = pendingText
              /\ pendingTextRev' = pendingTextRev
              /\ net' = net
      /\ (last'.act \in {"updateContentConfirmed", "updateContentFailed"} /\ StrayPatch(last'.msg))
           => (Has(nodes', last'.msg.id) => Has(nodes, last'.msg.id)) ]_vars
====
